---------------------------- MODULE Spec2Model ----------------------------
(***************************************************************************)
(* A model of the NYCDA convention schedule parser                         *)
(* (src/parse_nycda_convention.py): the time parser parse_time_range, the  *)
(* geometric grid reconstruction _extract_convention_page and the run of   *)
(* main and parse_nycda_convention over a document; and of the             *)
(* normalisation add_duration_and_dedupe of the WCDE convention parser     *)
(* (src/parse_wcde_convention.py); of the row loop of the WCDE competition *)
(* parser (src/parse_wcde_comp.py) and of the page loop of the Hollywood   *)
(* Vibe competition parser (src/parse_hollywood_vibe_comp.py).             *)
(*                                                                         *)
(* Text is modelled as a sequence of one-character strings, so that the    *)
(* regular expressions, str.lower, str.split, int() and the f-string       *)
(* formatting of the source are computed character by character.           *)
(* Optional[T] is modelled as a sequence of length at most one:            *)
(* None is << >> and a present value v is << v >>.                         *)
(* Coordinates are integers; a centre (a+b)/2 is carried as its double     *)
(* a+b, and every comparison of centres is made on the doubles.            *)
(***************************************************************************)
EXTENDS Integers, Sequences, FiniteSets, TLC

VARIABLES
    pc,         \* position of the run
    written,    \* the clocks and meridiems the time text was written from
    value,      \* parse_time_range: the argument
    result,     \* parse_time_range: the returned triple
    page,            \* _extract_convention_page: the words of the page
    headers,         \* the header row, sorted by x0
    schedule_words,  \* the words below the header row, sorted by ycenter
    rows,            \* the rows of words
    cell_rows,       \* the cell text per column name of every row
    events,          \* the events of the page
    records,         \* add_duration_and_dedupe: the argument
    normalized_rows, \* the list it returns (its local "normalized")
    renormalized,    \* the list it returns when run on that list
    argv,            \* main: the arguments, none or the document at pdf_path
    handle,          \* the document handle of pdfplumber.open
    opened,          \* how often the document was opened
    page_index,      \* how many pages of pdf.pages were processed
    all_events,      \* parse_nycda_convention: the events of the pages so far
    raised,          \* the exception raised, if any
    table,           \* the table returned, if any
    exit_status,     \* the status main ended with, if it has
    comp_pages,            \* parse_wcde_comp: the tables of the pages of the pdf
    at,                    \* the page, table and row the loops are at
    all_rows,              \* the data rows emitted so far
    active_header,         \* the matching header seen last, if any
    current_day,           \* the day of the day heading seen last
    found_tables,          \* a page had tables
    found_matching_header, \* a matching header was seen
    comp_outcome,          \* how parse_wcde_comp ended, if it has
    vibe_pages,            \* parse_hollywood_vibe_comp: the text of the pages
    vibe_page_index,       \* the number of the page processed last
    vibe_records,          \* its local "records"
    studio_name,           \* the studio name found on the first page
    current_segment_date,  \* the fields of the segment header seen last
    current_stage,
    current_segment_line,
    vibe_outcome           \* how parse_hollywood_vibe_comp ended, if it has

vars == <<pc, written, value, result, page, headers, schedule_words, rows,
          cell_rows, events, records, normalized_rows, renormalized,
          argv, handle, opened, page_index, all_events, raised, table,
          exit_status,
          comp_pages, at, all_rows, active_header, current_day, found_tables,
          found_matching_header, comp_outcome,
          vibe_pages, vibe_page_index, vibe_records, studio_name,
          current_segment_date, current_stage, current_segment_line,
          vibe_outcome>>

timeVars == <<written, value, result>>

pageVars == <<page, headers, schedule_words, rows, cell_rows, events>>

dedupeVars == <<records, normalized_rows, renormalized>>

\* the variables of a function that is not run are left empty
TimeIdle == written = << >> /\ value = << >> /\ result = << >>

PageIdle ==
    /\ page = << >> /\ headers = << >> /\ schedule_words = << >>
    /\ rows = << >> /\ cell_rows = << >> /\ events = << >>

DedupeIdle == records = << >> /\ normalized_rows = << >> /\ renormalized = << >>

docVars == <<argv, handle, opened, page_index, all_events, raised, table,
             exit_status>>

DocIdle ==
    /\ argv = << >> /\ handle = "unopened" /\ opened = 0 /\ page_index = 0
    /\ all_events = << >> /\ raised = << >> /\ table = << >>
    /\ exit_status = << >>

compVars == <<comp_pages, at, all_rows, active_header, current_day, found_tables,
              found_matching_header, comp_outcome>>

CompIdle ==
    /\ comp_pages = << >> /\ at = <<0, 0, 0>> /\ all_rows = << >>
    /\ active_header = << >> /\ current_day = << >>
    /\ found_tables = FALSE /\ found_matching_header = FALSE
    /\ comp_outcome = << >>

vibeVars == <<vibe_pages, vibe_page_index, vibe_records, studio_name,
              current_segment_date, current_stage, current_segment_line,
              vibe_outcome>>

VibeIdle ==
    /\ vibe_pages = << >> /\ vibe_page_index = 0 /\ vibe_records = << >>
    /\ studio_name = << >> /\ current_segment_date = << >>
    /\ current_stage = << >> /\ current_segment_line = << >>
    /\ vibe_outcome = << >>

---------------------------------------------------------------------------
(* Optional values                                                         *)

None == << >>

Some(v) == << v >>

---------------------------------------------------------------------------
(* Characters and strings                                                  *)

DigitChars == <<"0", "1", "2", "3", "4", "5", "6", "7", "8", "9">>

LowerChars == <<"a", "b", "c", "d", "e", "f", "g", "h", "i", "j", "k", "l", "m",
                "n", "o", "p", "q", "r", "s", "t", "u", "v", "w", "x", "y", "z">>

UpperChars == <<"A", "B", "C", "D", "E", "F", "G", "H", "I", "J", "K", "L", "M",
                "N", "O", "P", "Q", "R", "S", "T", "U", "V", "W", "X", "Y", "Z">>

IsDigit(c) == \E i \in 1..10 : DigitChars[i] = c

DigitVal(c) == (CHOOSE i \in 1..10 : DigitChars[i] = c) - 1

\* int() of a string of decimal digits
RECURSIVE IntOf(_)
IntOf(s) ==
    IF s = << >> THEN 0
    ELSE 10 * IntOf(SubSeq(s, 1, Len(s) - 1)) + DigitVal(s[Len(s)])

IsSpace(c) == c \in {" ", "\t", "\n", "\r"}

LowerChar(c) ==
    IF \E i \in 1..26 : UpperChars[i] = c
    THEN LowerChars[CHOOSE i \in 1..26 : UpperChars[i] = c]
    ELSE c

UpperChar(c) ==
    IF \E i \in 1..26 : LowerChars[i] = c
    THEN UpperChars[CHOOSE i \in 1..26 : LowerChars[i] = c]
    ELSE c

\* str.lower, str.upper
Lower(s) == [i \in 1..Len(s) |-> LowerChar(s[i])]

Upper(s) == [i \in 1..Len(s) |-> UpperChar(s[i])]

\* str.split(): the maximal runs of non-whitespace characters
RECURSIVE SplitFrom(_, _, _, _)
SplitFrom(s, i, cur, acc) ==
    IF i > Len(s)
    THEN IF cur = << >> THEN acc ELSE Append(acc, cur)
    ELSE IF IsSpace(s[i])
         THEN SplitFrom(s, i + 1, << >>, IF cur = << >> THEN acc ELSE Append(acc, cur))
         ELSE SplitFrom(s, i + 1, Append(cur, s[i]), acc)

Split(s) == SplitFrom(s, 1, << >>, << >>)

\* sep.join(parts)
RECURSIVE Join(_, _)
Join(parts, sep) ==
    IF parts = << >> THEN << >>
    ELSE IF Len(parts) = 1 THEN parts[1]
    ELSE parts[1] \o sep \o Join(Tail(parts), sep)

\* str.strip()
RECURSIVE Strip(_)
Strip(s) ==
    IF s = << >> THEN s
    ELSE IF IsSpace(s[1]) THEN Strip(Tail(s))
    ELSE IF IsSpace(s[Len(s)]) THEN Strip(SubSeq(s, 1, Len(s) - 1))
    ELSE s

\* clean_text: line breaks to blanks, runs of whitespace to one blank, trimmed
clean_text(text) == Strip(Join(Split(text), <<" ">>))

\* str.replace(" ", "")
RemoveBlanks(s) == SelectSeq(s, LAMBDA c : c # " ")

---------------------------------------------------------------------------
(* The regular expressions of the time parser.  A match position is an     *)
(* index into the text; 0 means no match.                                  *)

\* \d{1,2}:\d{2} at position i: the position just after it
ClockEnd(s, i) ==
    LET d(k) == k >= 1 /\ k <= Len(s) /\ IsDigit(s[k])
        colon(k) == k >= 1 /\ k <= Len(s) /\ s[k] = ":"
    IN  IF d(i) /\ d(i + 1) /\ colon(i + 2) /\ d(i + 3) /\ d(i + 4) THEN i + 5
        ELSE IF d(i) /\ colon(i + 1) /\ d(i + 2) /\ d(i + 3) THEN i + 4
        ELSE 0

\* (am|pm) at position i, as written or under re.IGNORECASE
IsMer(s, i, ignorecase) ==
    /\ i >= 1
    /\ i + 1 <= Len(s)
    /\ LET two == SubSeq(s, i, i + 1)
           seen == IF ignorecase THEN Lower(two) ELSE two
       IN  seen \in {<<"a", "m">>, <<"p", "m">>}

\* ^(\d{1,2}:\d{2})(am|pm)?-(\d{1,2}:\d{2})(am|pm)?$ : the four groups, an
\* absent optional group being the empty string; None when there is no match
RangeMatch(text) ==
    LET e1 == ClockEnd(text, 1)
        m1 == IF e1 # 0 /\ IsMer(text, e1, FALSE) THEN e1 + 2 ELSE e1
        dash == e1 # 0 /\ m1 <= Len(text) /\ text[m1] = "-"
        e2 == IF dash THEN ClockEnd(text, m1 + 1) ELSE 0
        m2 == IF e2 # 0 /\ IsMer(text, e2, FALSE) THEN e2 + 2 ELSE e2
    IN  IF e2 # 0 /\ m2 = Len(text) + 1
        THEN Some(<<SubSeq(text, 1, e1 - 1), SubSeq(text, e1, m1 - 1),
                    SubSeq(text, m1 + 1, e2 - 1), SubSeq(text, e2, m2 - 1)>>)
        ELSE None

\* ^(\d{1,2}:\d{2})(am|pm)?$ : the two groups, or None
SingleMatch(text) ==
    LET e1 == ClockEnd(text, 1)
        m1 == IF e1 # 0 /\ IsMer(text, e1, FALSE) THEN e1 + 2 ELSE e1
    IN  IF e1 # 0 /\ m1 = Len(text) + 1
        THEN Some(<<SubSeq(text, 1, e1 - 1), SubSeq(text, e1, m1 - 1)>>)
        ELSE None

---------------------------------------------------------------------------
(* _clock_to_minutes, _minutes_to_hhmm, parse_time_range                   *)

\* the range checks and the conversion of _clock_to_minutes, without the checks
clock_minutes_unchecked(hour, minute, meridiem) ==
    IF meridiem # << >>
    THEN Some(((IF hour = 12 THEN 0 ELSE hour)
               + (IF Lower(meridiem) = <<"p", "m">> THEN 12 ELSE 0)) * 60 + minute)
    ELSE Some(hour * 60 + minute)

\* the range checks and the conversion of _clock_to_minutes: with a meridiem
\* the hour is 1-12, 12 becomes 0 and pm adds 12; without, the hour is 0-23
clock_minutes(hour, minute, meridiem) ==
    IF minute < 0 \/ minute > 59 THEN None
    ELSE IF meridiem # << >>
         THEN IF hour < 1 \/ hour > 12 THEN None
              ELSE Some(((IF hour = 12 THEN 0 ELSE hour)
                         + (IF Lower(meridiem) = <<"p", "m">> THEN 12 ELSE 0)) * 60 + minute)
         ELSE IF hour < 0 \/ hour > 23 THEN None
              ELSE Some(hour * 60 + minute)

\* re.match(r"^(\d{1,2}):(\d{2})$", c), then int() of the two groups
ClockOfText(c, meridiem) ==
    IF ClockEnd(c, 1) = 0 \/ ClockEnd(c, 1) # Len(c) + 1 THEN None
    ELSE clock_minutes(IntOf(SubSeq(c, 1, Len(c) - 3)),
                       IntOf(SubSeq(c, Len(c) - 1, Len(c))), meridiem)

_clock_to_minutes(clock, meridiem) == ClockOfText(clean_text(clock), meridiem)

\* str(n) for 0 <= n
RECURSIVE Decimal(_)
Decimal(n) ==
    IF n < 10 THEN <<DigitChars[n + 1]>>
    ELSE Decimal(n \div 10) \o <<DigitChars[(n % 10) + 1]>>

\* f"{n:02d}" for 0 <= n
Pad2(n) == IF n < 10 THEN <<"0">> \o Decimal(n) ELSE Decimal(n)

\* _minutes_to_hhmm without the reduction modulo 24 hours
_minutes_to_hhmm_no_wrap(total_minutes) ==
    Pad2(total_minutes \div 60) \o <<":">> \o Pad2(total_minutes % 60)

_minutes_to_hhmm(total_minutes) ==
    LET normalized == total_minutes % (24 * 60)
        hour == normalized \div 60
        minute == normalized % 60
    IN  Pad2(hour) \o <<":">> \o Pad2(minute)

NoneTriple == <<None, None, None>>

\* "If one side has meridiem and the other doesn't, infer missing side."
infer_meridiem_start_only(start_mer, end_mer) ==
    <<IF start_mer = << >> /\ end_mer # << >> THEN end_mer ELSE start_mer, end_mer>>

infer_meridiem(start_mer, end_mer) ==
    LET s1 == IF start_mer = << >> /\ end_mer # << >> THEN end_mer ELSE start_mer
        e1 == IF s1 # << >> /\ end_mer = << >> THEN s1 ELSE end_mer
    IN  <<s1, e1>>

\* duration = end_minutes - start_minutes; if duration <= 0: duration += 12 * 60
range_duration_day_wrap(start_minutes, end_minutes) ==
    LET duration == end_minutes - start_minutes
    IN  IF duration <= 0 THEN duration + 24 * 60 ELSE duration

range_duration(start_minutes, end_minutes) ==
    LET duration == end_minutes - start_minutes
    IN  IF duration <= 0 THEN duration + 12 * 60 ELSE duration

fallback_duration_half == 60 \div 2

fallback_duration == 60

\* the returned triple of a parsed text
Triple(start_minutes, duration) ==
    <<Some(_minutes_to_hhmm(start_minutes)),
      Some(_minutes_to_hhmm(start_minutes + duration)),
      Some(duration)>>

\* the RANGE branch once both clocks are converted
RangeTriple(start_minutes, end_minutes) ==
    IF start_minutes = None \/ end_minutes = None THEN NoneTriple
    ELSE Triple(start_minutes[1], range_duration(start_minutes[1], end_minutes[1]))

\* the RANGE branch: g is the four groups, mer the two meridiems after inference
RangeResult(g, mer) ==
    RangeTriple(_clock_to_minutes(g[1], mer[1]), _clock_to_minutes(g[3], mer[2]))

\* the SINGLE branch once the clock is converted
SingleTriple(start_minutes) ==
    IF start_minutes = None THEN NoneTriple
    ELSE Triple(start_minutes[1], fallback_duration)

\* parse_time_range once the text is normalised and matched
ParseMatched(range_match, single_match) ==
    IF range_match # None
    THEN RangeResult(range_match[1], infer_meridiem(range_match[1][2], range_match[1][4]))
    ELSE IF single_match # None
    THEN SingleTriple(_clock_to_minutes(single_match[1][1], single_match[1][2]))
    ELSE NoneTriple

ParseText(text) ==
    IF text = << >> THEN NoneTriple
    ELSE ParseMatched(RangeMatch(text), SingleMatch(text))

parse_time_range(v) == ParseText(RemoveBlanks(Lower(clean_text(v))))

---------------------------------------------------------------------------
(* _extract_convention_page: the grid reconstruction of one page.  A word  *)
(* of page.extract_words() is a record [text, x0, x1, top, bottom].        *)

S_SENIORS == <<"S", "E", "N", "I", "O", "R", "S">>

S_TEENS == <<"T", "E", "E", "N", "S">>

S_JUNIORS == <<"J", "U", "N", "I", "O", "R", "S">>

S_MINIS == <<"M", "I", "N", "I", "S">>

S_RSD == <<"R", "S", "D">>

HEADER_LABELS == <<S_SENIORS, S_TEENS, S_JUNIORS, S_MINIS, S_RSD>>

LEVEL_MAP ==
    <<<<S_SENIORS, <<"S", "e", "n", "i", "o", "r">>>>,
      <<S_TEENS, <<"T", "e", "e", "n">>>>,
      <<S_JUNIORS, <<"J", "u", "n", "i", "o", "r">>>>,
      <<S_MINIS, <<"M", "i", "n", "i">>>>,
      <<S_RSD, S_RSD>>>>

normalize_level(raw_level) ==
    LET key == Upper(clean_text(raw_level))
    IN  IF \E i \in 1..Len(LEVEL_MAP) : LEVEL_MAP[i][1] = key
        THEN LEVEL_MAP[CHOOSE i \in 1..Len(LEVEL_MAP) : LEVEL_MAP[i][1] = key][2]
        ELSE clean_text(raw_level)

Abs(n) == IF n < 0 THEN -n ELSE n

\* sorted(ws, key=...) : Python's sort is stable, so a word goes after the
\* words of smaller key and after the earlier words of equal key
StableSort(ws, key) ==
    LET n == Len(ws)
        rank(i) == Cardinality({j \in 1..n : key[j] < key[i] \/ (key[j] = key[i] /\ j < i)}) + 1
    IN  [p \in 1..n |-> ws[CHOOSE i \in 1..n : rank(i) = p]]

SortByX0(ws) == StableSort(ws, [i \in 1..Len(ws) |-> ws[i].x0])

\* w["ycenter"] = (top + bottom) / 2, carried doubled
YCenter2(w) == w.top + w.bottom

\* (x0 + x1) / 2, carried doubled
XCenter2(w) == w.x0 + w.x1

SortByYCenter(ws) == StableSort(ws, [i \in 1..Len(ws) |-> YCenter2(ws[i])])

\* 1) the words whose upper-cased text is a header label
HeaderCandidates(words) ==
    SelectSeq(words, LAMBDA w : \E i \in 1..Len(HEADER_LABELS) :
                                    HEADER_LABELS[i] = Upper(clean_text(w.text)))

\* round(float(w["top"]) / 5) * 5 for an integer top (top / 5 is never a tie)
ClusterKey(w) == ((2 * w.top + 5) \div 10) * 5

\* the cluster of the first candidate, whatever its size
BestWords_first_cluster(candidates) ==
    SelectSeq(candidates, LAMBDA w : ClusterKey(w) = ClusterKey(candidates[1]))

\* 2) clusters by vertical position; max() keeps the first of the largest
\* clusters in the dict's insertion order
BestWords(candidates) ==
    LET n == Len(candidates)
        members(k) == SelectSeq(candidates, LAMBDA w : ClusterKey(w) = k)
        firstOf(i) == \A j \in 1..(i - 1) : ClusterKey(candidates[j]) # ClusterKey(candidates[i])
        best == CHOOSE i \in 1..n :
                    /\ firstOf(i)
                    /\ \A j \in 1..n : Len(members(ClusterKey(candidates[j])))
                                          <= Len(members(ClusterKey(candidates[i])))
                    /\ \A j \in 1..(i - 1) : Len(members(ClusterKey(candidates[j])))
                                                < Len(members(ClusterKey(candidates[i])))
    IN  members(ClusterKey(candidates[best]))

HeaderRow(words) == SortByX0(BestWords(HeaderCandidates(words)))

ColumnNames(hs) == [i \in 1..Len(hs) |-> Upper(clean_text(hs[i].text))]

\* the column centres, doubled
Centers(hs) == [i \in 1..Len(hs) |-> XCenter2(hs[i])]

\* min(range(len(centers)), key=diffs) keeping the last of the nearest columns
assign_col_last_nearest(x_center, centers, column_names) ==
    LET diffs == [i \in 1..Len(centers) |-> Abs(x_center - centers[i])]
        idx == CHOOSE i \in 1..Len(centers) :
                   /\ \A j \in 1..Len(centers) : diffs[i] <= diffs[j]
                   /\ \A j \in (i + 1)..Len(centers) : diffs[i] < diffs[j]
    IN  column_names[idx]

\* assign_col: x_center and centers are doubled; min() keeps the first of the
\* nearest columns
assign_col(x_center, centers, column_names) ==
    LET diffs == [i \in 1..Len(centers) |-> Abs(x_center - centers[i])]
        idx == CHOOSE i \in 1..Len(centers) :
                   /\ \A j \in 1..Len(centers) : diffs[i] <= diffs[j]
                   /\ \A j \in 1..(i - 1) : diffs[j] > diffs[i]
    IN  column_names[idx]

RECURSIVE MaxBottom(_)
MaxBottom(hs) ==
    IF Len(hs) = 1 THEN hs[1].bottom
    ELSE LET m == MaxBottom(Tail(hs))
         IN  IF hs[1].bottom >= m THEN hs[1].bottom ELSE m

\* the words at or below header_bottom + 2, sorted by vertical centre
ScheduleWords_inclusive(words, hs) ==
    LET header_bottom == MaxBottom(hs)
    IN  SortByYCenter(SelectSeq(words, LAMBDA w : w.top >= header_bottom + 2))

\* 3) the words below the header row, sorted by vertical centre
ScheduleWords(words, hs) ==
    LET header_bottom == MaxBottom(hs)
    IN  SortByYCenter(SelectSeq(words, LAMBDA w : w.top > header_bottom + 2))

row_threshold == 4

\* abs(y - last_y) < row_threshold
same_row_strict(y, last_y) == Abs(y - last_y) < 2 * row_threshold

\* abs(y - last_y) <= row_threshold, on doubled centres
same_row(y, last_y) == Abs(y - last_y) <= 2 * row_threshold

\* 4) the single pass that groups the sorted words into rows; i is the next
\* word, current the row being built, last_y None before the first word
RECURSIVE GroupFrom(_, _, _, _, _)
GroupFrom(ws, i, rs, current, last_y) ==
    IF i > Len(ws)
    THEN IF current # << >> THEN Append(rs, current) ELSE rs
    ELSE IF last_y = None \/ same_row(YCenter2(ws[i]), last_y[1])
    THEN GroupFrom(ws, i + 1, rs, Append(current, ws[i]), Some(YCenter2(ws[i])))
    ELSE GroupFrom(ws, i + 1, Append(rs, current), <<ws[i]>>, Some(YCenter2(ws[i])))

GroupRows(ws) == GroupFrom(ws, 1, << >>, << >>, None)

NameSet(column_names) == {column_names[i] : i \in 1..Len(column_names)}

\* the cell texts with the words of a row taken as they are listed
build_row_cells_unsorted(row_words, centers, column_names) ==
    LET tokens(name) ==
            LET mine == SelectSeq(row_words,
                            LAMBDA w : assign_col(XCenter2(w), centers, column_names) = name)
            IN  [i \in 1..Len(mine) |-> clean_text(mine[i].text)]
    IN  [name \in NameSet(column_names) |-> Strip(Join(tokens(name), <<" ">>))]

\* 5) the cell text of every column name for one row
build_row_cells(row_words, centers, column_names) ==
    LET sorted == SortByX0(row_words)
        tokens(name) ==
            LET mine == SelectSeq(sorted,
                            LAMBDA w : assign_col(XCenter2(w), centers, column_names) = name)
            IN  [i \in 1..Len(mine) |-> clean_text(mine[i].text)]
    IN  [name \in NameSet(column_names) |-> Strip(Join(tokens(name), <<" ">>))]

\* \s* from position i: the first position that holds no whitespace
RECURSIVE SkipSpaces(_, _)
SkipSpaces(s, i) ==
    IF i >= 1 /\ i <= Len(s) /\ IsSpace(s[i]) THEN SkipSpaces(s, i + 1) ELSE i

\* TIME_PATTERN.match:
\* ^\d{1,2}:\d{2}(?:\s*(?:am|pm))?(?:\s*-\s*\d{1,2}:\d{2}(?:\s*(?:am|pm))?)?$
\* under re.IGNORECASE
TimePatternMatch(s) ==
    LET e1 == ClockEnd(s, 1)
        m1 == IF e1 # 0 /\ IsMer(s, SkipSpaces(s, e1), TRUE)
              THEN SkipSpaces(s, e1) + 2 ELSE e1
        d == SkipSpaces(s, m1)
        dash == e1 # 0 /\ d <= Len(s) /\ s[d] = "-"
        e2 == IF dash THEN ClockEnd(s, SkipSpaces(s, d + 1)) ELSE 0
        m2 == IF e2 # 0 /\ IsMer(s, SkipSpaces(s, e2), TRUE)
              THEN SkipSpaces(s, e2) + 2 ELSE e2
    IN  /\ e1 # 0
        /\ \/ m1 = Len(s) + 1
           \/ e2 # 0 /\ m2 = Len(s) + 1

is_time_cell(text) == TimePatternMatch(clean_text(text))

\* is_time_row with one time cell being enough
is_time_row_any(cells) ==
    Cardinality({name \in DOMAIN cells :
                    cells[name] # << >> /\ is_time_cell(cells[name])}) >= 1

\* is_time_row asking for three time cells
is_time_row_three(cells) ==
    Cardinality({name \in DOMAIN cells :
                    cells[name] # << >> /\ is_time_cell(cells[name])}) >= 3

is_time_row(cells) ==
    Cardinality({name \in DOMAIN cells :
                    cells[name] # << >> /\ is_time_cell(cells[name])}) >= 2

\* "needle in haystack"
Contains(haystack, needle) ==
    \E i \in 1..(Len(haystack) - Len(needle) + 1) :
        SubSeq(haystack, i, i + Len(needle) - 1) = needle

RECURSIVE Flatten(_)
Flatten(seqs) == IF seqs = << >> THEN << >> ELSE seqs[1] \o Flatten(Tail(seqs))

EmptyCells(column_names) == [name \in NameSet(column_names) |-> << >>]

\* style_row of the time row at position idx (the first row is 1): row idx-1
StyleRow(crs, idx, column_names) ==
    IF idx - 1 >= 1 THEN crs[idx - 1] ELSE EmptyCells(column_names)

\* teacher_row taken from the row right above the time row
TeacherRow_style_band(crs, idx, column_names) ==
    IF idx - 1 >= 1 THEN crs[idx - 1] ELSE EmptyCells(column_names)

\* teacher_row of the time row at position idx: row idx-2
TeacherRow(crs, idx, column_names) ==
    IF idx - 2 >= 1 THEN crs[idx - 2] ELSE EmptyCells(column_names)

\* class_name = style_text or f"{division} Class"
ClassName(style_text, division) ==
    IF style_text # << >> THEN style_text
    ELSE division \o <<" ", "C", "l", "a", "s", "s">>

\* raw_text: the non-empty parts joined by " | "
RawText(style_text, teacher_text, time_text) ==
    Join(SelectSeq(<<style_text, teacher_text, time_text>>, LAMBDA part : part # << >>),
         <<" ", "|", " ">>)

\* the event dict built from the texts of one column and its parsed time
Event(day_label, level_key, time_text, style_text, teacher_text, room_text, parsed) ==
    [day |-> day_label,
     level |-> normalize_level(level_key),
     division |-> normalize_level(level_key),
     room |-> room_text,
     time |-> time_text,
     start_time |-> parsed[1][1],
     end_time |-> parsed[2][1],
     duration |-> parsed[3],
     teacher |-> teacher_text,
     instructor |-> teacher_text,
     style |-> style_text,
     class_name |-> ClassName(style_text, normalize_level(level_key)),
     age_range |-> << >>,
     is_audition_phrase |->
         Contains(Lower(ClassName(style_text, normalize_level(level_key))
                        \o <<" ">> \o teacher_text),
                  <<"a", "u", "d", "i", "t", "i", "o", "n">>),
     raw_text |-> RawText(style_text, teacher_text, time_text)]

\* "not start_time or not end_time"
NoTimes(parsed) ==
    \/ parsed[1] = None \/ parsed[1] = Some(<< >>)
    \/ parsed[2] = None \/ parsed[2] = Some(<< >>)

\* the events of one column of the time row at position idx: one or none
CellEvent(crs, idx, level_key, column_names, day_label) ==
    IF clean_text(crs[idx][level_key]) = << >>
       \/ ~is_time_cell(clean_text(crs[idx][level_key]))
    THEN << >>
    ELSE IF NoTimes(parse_time_range(clean_text(crs[idx][level_key])))
    THEN << >>
    ELSE << Event(day_label, level_key,
                  clean_text(crs[idx][level_key]),
                  clean_text(StyleRow(crs, idx, column_names)[level_key]),
                  clean_text(TeacherRow(crs, idx, column_names)[level_key]),
                  clean_text(crs[1][level_key]),
                  parse_time_range(clean_text(crs[idx][level_key]))) >>

\* the linking with a time row giving no event at all once one of its
\* non-empty cells is not a time or does not parse
LinkEvents_row_fails_on_bad_cell(crs, column_names, day_label) ==
    Flatten([idx \in 1..Len(crs) |->
        IF ~is_time_row(crs[idx])
           \/ \E k \in 1..Len(column_names) :
                 /\ crs[idx][column_names[k]] # << >>
                 /\ \/ ~is_time_cell(crs[idx][column_names[k]])
                    \/ NoTimes(parse_time_range(crs[idx][column_names[k]]))
        THEN << >>
        ELSE Flatten([k \in 1..Len(column_names) |->
                 CellEvent(crs, idx, column_names[k], column_names, day_label)])])

\* the linking with the columns in the outer loop and the rows in the inner
LinkEvents_columns_first(crs, column_names, day_label) ==
    Flatten([k \in 1..Len(column_names) |->
        Flatten([idx \in 1..Len(crs) |->
            IF ~is_time_row(crs[idx]) THEN << >>
            ELSE CellEvent(crs, idx, column_names[k], column_names, day_label)])])

\* 6) every time row, in order, gives the events of its columns, in header order
LinkEvents(crs, column_names, day_label) ==
    Flatten([idx \in 1..Len(crs) |->
        IF ~is_time_row(crs[idx]) THEN << >>
        ELSE Flatten([k \in 1..Len(column_names) |->
                 CellEvent(crs, idx, column_names[k], column_names, day_label)])])

---------------------------------------------------------------------------
(* The time texts the parser is run on: a cell is written from one clock   *)
(* (SINGLE) or two (RANGE), each an hour, a minute and an optional         *)
(* meridiem, either tightly ("7:30-8:15am") or loosely, with a padded      *)
(* start hour, blanks and capitals ("07:30 - 8:15 AM"); or it is one of    *)
(* the texts of OtherTexts, which have neither shape.                      *)

MaxHour == 24

MaxMinute == 60

Hours == {0, 1, 7, 8, 12, 13, 14, 23} \cup (24..MaxHour)

Minutes == {0, 15, 30, 59} \cup (60..MaxMinute)

Meridiems == {"", "am", "pm"}

OtherTexts ==
    << << >>,
       <<" ">>,
       <<"H", "i", "p", " ", "H", "o", "p">>,
       <<"7", ":", "3">>,
       <<"7", "3", "0">>,
       <<"7", ":", "3", "0", "-">>,
       <<"-", "8", ":", "1", "5">>,
       <<"7", ":", "3", "0", "x", "m">>,
       <<"1", "2", "3", ":", "0", "0">>,
       <<"7", ":", "3", "0", "-", "8", ":", "1", "5", "-", "9", ":", "0", "0">>,
       <<"7", ":", "3", "0", "a", "m", "8", ":", "1", "5">>,
       <<"a", "m">> >>

WrittenCells ==
    [shape : {"range"}, h1 : Hours, m1 : Minutes, mer1 : Meridiems,
     h2 : Hours, m2 : Minutes, mer2 : Meridiems, loose : BOOLEAN, other : {0}]
    \cup
    [shape : {"single"}, h1 : Hours, m1 : Minutes, mer1 : Meridiems,
     h2 : {0}, m2 : {0}, mer2 : {""}, loose : BOOLEAN, other : {0}]
    \cup
    [shape : {"other"}, h1 : {0}, m1 : {0}, mer1 : {""},
     h2 : {0}, m2 : {0}, mer2 : {""}, loose : {FALSE}, other : 1..Len(OtherTexts)]

MerText(mer, loose) ==
    IF mer = "" THEN << >>
    ELSE IF loose
         THEN IF mer = "am" THEN <<" ", "A", "M">> ELSE <<" ", "P", "M">>
         ELSE IF mer = "am" THEN <<"a", "m">> ELSE <<"p", "m">>

ClockText(h, m, padded) ==
    (IF padded THEN Pad2(h) ELSE Decimal(h)) \o <<":">> \o Pad2(m)

Render(w) ==
    IF w.shape = "other" THEN OtherTexts[w.other]
    ELSE ClockText(w.h1, w.m1, w.loose) \o MerText(w.mer1, w.loose)
         \o (IF w.shape = "single" THEN << >>
             ELSE (IF w.loose THEN <<" ", "-", " ">> ELSE <<"-">>)
                  \o ClockText(w.h2, w.m2, FALSE) \o MerText(w.mer2, w.loose))

---------------------------------------------------------------------------
(* The pages the grid reconstruction is run on: a header row at top 10,    *)
(* bottom 18, and below it up to MaxRows printed rows.  Every word is 20   *)
(* wide and 8 or 9 high; a printed row is one of RowKinds and lies Gap     *)
(* below the previous one (doubled centres: 8 is a centre distance of 4,   *)
(* 9 of 4.5, 20 of 10; the first row lies Gap below the doubled centre 40, *)
(* so 20 puts the rows at y = 30, 40, 50).  extract_words lists the header *)
(* first and then the other words from the bottom right to the top left.   *)

S_JSmith == <<"J", ".", " ", "S", "m", "i", "t", "h">>

S_HipHop == <<"H", "i", "p", " ", "H", "o", "p">>

S_Tap == <<"T", "a", "p">>

S_Jazz == <<"J", "a", "z", "z">>

S_Ballet == <<"B", "a", "l", "l", "e", "t">>

S_Acro == <<"A", "c", "r", "o">>

S_Friday == <<"F", "r", "i", "d", "a", "y">>

S_730_815 == <<"7", ":", "3", "0", "-", "8", ":", "1", "5">>

S_900_945 == <<"9", ":", "0", "0", "-", "9", ":", "4", "5">>

Word(text, xc, y2) ==
    [text |-> text, x0 |-> xc - 10, x1 |-> xc + 10,
     top |-> (y2 \div 2) - 4, bottom |-> y2 - ((y2 \div 2) - 4)]

HeaderLayouts ==
    << <<Word(S_MINIS, 100, 28), Word(S_JUNIORS, 300, 28), Word(S_TEENS, 500, 28)>>,
       <<Word(S_TEENS, 500, 28), Word(<<"t", "e", "e", "n", "s">>, 100, 28),
         Word(S_JUNIORS, 300, 28)>>,
       <<Word(S_MINIS, 100, 28), Word(S_JUNIORS, 300, 28)>>,
       <<Word(S_TEENS, 500, 200), Word(S_MINIS, 100, 28), Word(S_JUNIORS, 300, 28)>> >>

\* the printed rows: the words of each with the centre of each
RowKinds ==
    << << <<S_JSmith, 300>> >>,
       << <<S_HipHop, 300>> >>,
       << <<S_730_815, 300>> >>,
       << <<S_900_945, 100>>, <<S_730_815, 300>> >>,
       << <<S_Tap, 190>>, <<S_Jazz, 200>>, <<S_Ballet, 290>>, <<S_Acro, 400>> >>,
       << <<<<"1", ":", "0", "0", "P", "M">>, 100>>, <<<<"7", ":", "3", "0">>, 290>>, <<<<"-">>, 300>>, <<<<"8", ":", "1", "5">>, 310>>,
          <<<<"a", "m">>, 320>>, <<<<"2", "5", ":", "0", "0">>, 500>> >>,
       << <<<<"7", ":", "3", "0", "x">>, 100>>, <<<<"9", ":", "0", "0">>, 300>>,
          <<<<"1", "0", ":", "0", "0", "a", "m">>, 500>> >> >>

\* the rows a page is made of: a kind of row and its distance to the row above
RowChoices ==
    << [kind |-> 1, gap |-> 20], [kind |-> 2, gap |-> 20], [kind |-> 3, gap |-> 20],
       [kind |-> 4, gap |-> 20], [kind |-> 5, gap |-> 20], [kind |-> 6, gap |-> 20],
       [kind |-> 7, gap |-> 20],
       [kind |-> 4, gap |-> 8], [kind |-> 2, gap |-> 9] >>

MaxRows == 3

Bodies == UNION {[1..n -> 1..Len(RowChoices)] : n \in 0..MaxRows}

RECURSIVE RowY2(_, _)
RowY2(body, r) == IF r = 0 THEN 40 ELSE RowY2(body, r - 1) + RowChoices[body[r]].gap

Reverse(ws) == [i \in 1..Len(ws) |-> ws[Len(ws) + 1 - i]]

RowWords(body, r) ==
    LET kind == RowKinds[RowChoices[body[r]].kind]
    IN  [i \in 1..Len(kind) |-> Word(kind[i][1], kind[i][2], RowY2(body, r))]

BuildPage(hl, body) ==
    HeaderLayouts[hl] \o Reverse(Flatten([r \in 1..Len(body) |-> RowWords(body, r)]))

DayLabels == {<< >>, S_Friday}

---------------------------------------------------------------------------
(* SpecPage: _extract_convention_page run on one page.  The call is one    *)
(* step; its locals are kept as they are when it returns (a local the call *)
(* never assigned is the empty sequence).                                  *)

InitPage ==
    /\ \E hl \in 1..Len(HeaderLayouts) :
          \E body \in (IF hl = 1 THEN Bodies ELSE {b \in Bodies : Len(b) <= 2}) :
              page = BuildPage(hl, body)
    /\ headers = << >> /\ schedule_words = << >>
    /\ rows = << >> /\ cell_rows = << >> /\ events = << >>
    /\ pc = "call"
    /\ TimeIdle
    /\ DedupeIdle
    /\ DocIdle
    /\ CompIdle
    /\ VibeIdle

ExtractConventionPage ==
    /\ pc = "call"
    /\ IF Len(HeaderCandidates(page)) < 3
       THEN \* fewer than 3 header candidates: return []
            /\ headers' = << >> /\ schedule_words' = << >>
            /\ rows' = << >> /\ cell_rows' = << >> /\ events' = << >>
       ELSE /\ headers' = HeaderRow(page)
            /\ schedule_words' = ScheduleWords(page, headers')
            /\ rows' = GroupRows(schedule_words')
            /\ cell_rows' = [i \in 1..Len(rows') |->
                                build_row_cells(rows'[i], Centers(headers'),
                                                ColumnNames(headers'))]
            /\ \E day_label \in DayLabels :
                  events' = IF cell_rows' = << >> THEN << >>
                            ELSE LinkEvents(cell_rows', ColumnNames(headers'), day_label)
    /\ pc' = "returned"
    /\ UNCHANGED page
    /\ UNCHANGED timeVars
    /\ UNCHANGED dedupeVars
    /\ UNCHANGED docVars
    /\ UNCHANGED compVars
    /\ UNCHANGED vibeVars

NextPage == ExtractConventionPage

SpecPage == InitPage /\ [][NextPage]_vars

---------------------------------------------------------------------------
(* SpecTime: parse_time_range applied to one written time text             *)

InitTime ==
    /\ written \in WrittenCells
    /\ value = Render(written)
    /\ result = << >>
    /\ pc = "call"
    /\ PageIdle
    /\ DedupeIdle
    /\ DocIdle
    /\ CompIdle
    /\ VibeIdle

ParseTimeRange ==
    /\ pc = "call"
    /\ result' = parse_time_range(value)
    /\ pc' = "returned"
    /\ UNCHANGED <<written, value>>
    /\ UNCHANGED pageVars
    /\ UNCHANGED dedupeVars
    /\ UNCHANGED docVars
    /\ UNCHANGED compVars
    /\ UNCHANGED vibeVars

NextTime == ParseTimeRange

SpecTime == InitTime /\ [][NextTime]_vars

---------------------------------------------------------------------------
(* What the written clocks mean, stated apart from the parser              *)

\* the meridiem a side of a RANGE is read with: its own, else the other side's
EffMer1(w) == IF w.mer1 # "" THEN w.mer1 ELSE w.mer2

EffMer2(w) == IF w.mer2 # "" THEN w.mer2 ELSE w.mer1

\* a clock within the applicable range
ClockOk(h, m, mer) ==
    /\ m \in 0..59
    /\ IF mer # "" THEN h \in 1..12 ELSE h \in 0..23

\* minutes since midnight of a clock: 12 maps to 0, pm adds 12 hours
ClockMinutes(h, m, mer) ==
    IF mer = "" THEN h * 60 + m
    ELSE ((IF h = 12 THEN 0 ELSE h) + (IF mer = "pm" THEN 12 ELSE 0)) * 60 + m

\* a zero-padded 24-hour HH:MM text, and the minutes since midnight it shows
IsHHMM(t) ==
    /\ Len(t) = 5
    /\ t[3] = ":"
    /\ \A k \in {1, 2, 4, 5} : IsDigit(t[k])
    /\ DigitVal(t[1]) * 10 + DigitVal(t[2]) \in 0..23
    /\ DigitVal(t[4]) * 10 + DigitVal(t[5]) \in 0..59

HHMMValue(t) ==
    (DigitVal(t[1]) * 10 + DigitVal(t[2])) * 60 + DigitVal(t[4]) * 10 + DigitVal(t[5])

Returned == pc = "returned"

Parsed == Returned /\ result # NoneTriple

IsRange == written.shape = "range"

IsSingle == written.shape = "single"

T_0730 == <<"0", "7", ":", "3", "0">>

T_0815 == <<"0", "8", ":", "1", "5">>

T_0830 == <<"0", "8", ":", "3", "0">>

T_1300 == <<"1", "3", ":", "0", "0">>

T_1400 == <<"1", "4", ":", "0", "0">>

---------------------------------------------------------------------------
(* Claims about parse_time_range, under SpecTime                           *)

\* C2: every successfully parsed time text gives start_time < end_time,
\* compared as HH:MM clocks of the same day.
C2_StartBeforeEnd ==
    Parsed => /\ IsHHMM(result[1][1])
              /\ IsHHMM(result[2][1])
              /\ HHMMValue(result[1][1]) < HHMMValue(result[2][1])

\* C4: for every accepted RANGE, start_time shows the start clock in minutes
\* since midnight, and duration is end - start, with exactly 720 minutes added
\* once when that difference is <= 0; "7:30-8:15am" gives (07:30, 08:15, 45)
\* and "13:00-14:00" gives (13:00, 14:00, 60).
C4_RangeStartAndDuration ==
    /\ (Parsed /\ IsRange) =>
          LET s == ClockMinutes(written.h1, written.m1, EffMer1(written))
              e == ClockMinutes(written.h2, written.m2, EffMer2(written))
          IN  /\ IsHHMM(result[1][1])
              /\ HHMMValue(result[1][1]) = s
              /\ result[3] = Some(IF e - s <= 0 THEN e - s + 720 ELSE e - s)
    /\ (Returned /\ value = <<"7", ":", "3", "0", "-", "8", ":", "1", "5", "a", "m">>)
          => result = <<Some(T_0730), Some(T_0815), Some(45)>>
    /\ (Returned /\ value = <<"1", "3", ":", "0", "0", "-", "1", "4", ":", "0", "0">>)
          => result = <<Some(T_1300), Some(T_1400), Some(60)>>

\* C4 witness: an accepted RANGE whose difference was <= 0 and was repaired.
C4_Witness ==
    /\ Parsed /\ IsRange
    /\ ClockMinutes(written.h2, written.m2, EffMer2(written))
         <= ClockMinutes(written.h1, written.m1, EffMer1(written))
    /\ result[3][1] > 0

\* C5: "A-Bm", "Am-B" and "Am-Bm" parse to the same triple (or all fail), and
\* a RANGE with a meridiem on both sides is read with each side's own.
C5_MeridiemInheritance ==
    /\ (Returned /\ IsRange /\ written.mer1 # "" /\ written.mer1 = written.mer2) =>
          /\ parse_time_range(Render([written EXCEPT !.mer1 = ""])) = result
          /\ parse_time_range(Render([written EXCEPT !.mer2 = ""])) = result
    /\ (Parsed /\ IsRange /\ written.mer1 # "" /\ written.mer2 # "") =>
          LET s == ClockMinutes(written.h1, written.m1, written.mer1)
              e == ClockMinutes(written.h2, written.m2, written.mer2)
          IN  /\ HHMMValue(result[1][1]) = s
              /\ result[3] = Some(IF e - s <= 0 THEN e - s + 720 ELSE e - s)

\* C5 witness: "12:00pm-1:00pm" parsed, whose one-sided spellings are
\* "12:00-1:00pm" and "12:00pm-1:00".
C5_Witness ==
    /\ Parsed /\ IsRange
    /\ written.mer1 = "pm" /\ written.mer2 = "pm"
    /\ written.h1 = 12 /\ written.h2 = 1

\* C6: a SINGLE text with a valid clock gives duration 60 and end_time = start
\* plus 60 minutes shown as HH:MM; "7:30am" gives (07:30, 08:30, 60).
C6_SingleDefaultsToAnHour ==
    /\ (Returned /\ IsSingle /\ ClockOk(written.h1, written.m1, written.mer1)) =>
          LET s == ClockMinutes(written.h1, written.m1, written.mer1)
          IN  /\ result # NoneTriple
              /\ result[3] = Some(60)
              /\ IsHHMM(result[1][1]) /\ HHMMValue(result[1][1]) = s
              /\ IsHHMM(result[2][1]) /\ HHMMValue(result[2][1]) = (s + 60) % 1440
    /\ (Returned /\ value = <<"7", ":", "3", "0", "a", "m">>)
          => result = <<Some(T_0730), Some(T_0830), Some(60)>>

\* C6 witness: "7:30am" parsed.
C6_Witness ==
    /\ Parsed /\ IsSingle
    /\ value = <<"7", ":", "3", "0", "a", "m">>

\* the text is empty or of neither shape, or a side has a minute outside 0-59
\* or an hour outside the range its (own or inherited) meridiem allows
Unparseable(w) ==
    \/ w.shape = "other"
    \/ w.shape = "single" /\ ~ClockOk(w.h1, w.m1, w.mer1)
    \/ w.shape = "range" /\ \/ ~ClockOk(w.h1, w.m1, EffMer1(w))
                            \/ ~ClockOk(w.h2, w.m2, EffMer2(w))

\* C7: such a text gives (None, None, None), one bad side spoiling the whole
\* RANGE, and no result is ever a partial triple.
C7_UnparseableIsAllNone ==
    Returned =>
        /\ Unparseable(written) => result = NoneTriple
        /\ \/ result = NoneTriple
           \/ result[1] # None /\ result[2] # None /\ result[3] # None

\* C7 witness: a RANGE with a good start and a bad end, returned as all None.
C7_Witness ==
    /\ Returned /\ IsRange
    /\ ClockOk(written.h1, written.m1, EffMer1(written))
    /\ ~ClockOk(written.h2, written.m2, EffMer2(written))
    /\ result = NoneTriple

---------------------------------------------------------------------------
(* The time grammar, the nearest column and the band of a word, stated     *)
(* apart from the code                                                     *)

RECURSIVE RStrip(_)
RStrip(s) ==
    IF s # << >> /\ IsSpace(s[Len(s)]) THEN RStrip(SubSeq(s, 1, Len(s) - 1)) ELSE s

RECURSIVE LStrip(_)
LStrip(s) == IF s # << >> /\ IsSpace(s[1]) THEN LStrip(Tail(s)) ELSE s

\* h:mm or hh:mm
IsClockText(t) ==
    /\ Len(t) \in {4, 5}
    /\ t[Len(t) - 2] = ":"
    /\ \A k \in 1..Len(t) : k # Len(t) - 2 => IsDigit(t[k])

\* a clock, optionally followed by am or pm in either case
IsStamp(t) ==
    \/ IsClockText(t)
    \/ /\ Len(t) >= 2
       /\ Lower(SubSeq(t, Len(t) - 1, Len(t))) \in {<<"a", "m">>, <<"p", "m">>}
       /\ IsClockText(RStrip(SubSeq(t, 1, Len(t) - 2)))

\* one stamp, or two stamps around a dash
TimeShaped(s) ==
    \/ IsStamp(s)
    \/ \E k \in 1..Len(s) :
          /\ s[k] = "-"
          /\ IsStamp(RStrip(SubSeq(s, 1, k - 1)))
          /\ IsStamp(LStrip(SubSeq(s, k + 1, Len(s))))

TimeShapedCells(cells) == {name \in DOMAIN cells : TimeShaped(cells[name])}

\* the time-shaped cells, by band and column position, of the bands that hold
\* at least two of them
TimeRowSlots ==
    {s \in (1..Len(cell_rows)) \X (1..Len(headers)) :
        /\ Cardinality(TimeShapedCells(cell_rows[s[1]])) >= 2
        /\ TimeShaped(cell_rows[s[1]][ColumnNames(headers)[s[2]]])}

\* the leftmost of the columns whose centre is nearest to x
NearestEarliest(x, centers) ==
    LET nearest == {k \in 1..Len(centers) :
                       \A j \in 1..Len(centers) : Abs(x - centers[k]) <= Abs(x - centers[j])}
    IN  CHOOSE k \in nearest : \A j \in nearest : k <= j

\* the texts of the words of a band that lie nearest to a column of that name,
\* from left to right, joined by blanks
NearestText(row_words, name) ==
    LET mine == SelectSeq(SortByX0(row_words),
                    LAMBDA w : ColumnNames(headers)[NearestEarliest(XCenter2(w), Centers(headers))]
                                   = name)
    IN  Strip(Join([i \in 1..Len(mine) |-> clean_text(mine[i].text)], <<" ">>))

\* the band that holds the p-th word of schedule_words
BandOf(p) ==
    CHOOSE r \in 1..Len(rows) :
        /\ Len(Flatten(SubSeq(rows, 1, r - 1))) < p
        /\ p <= Len(Flatten(SubSeq(rows, 1, r)))

YStep(p) == YCenter2(schedule_words[p + 1]) - YCenter2(schedule_words[p])

\* the band and column position of every entry, in the order of emission
SlotsOfBand(idx) ==
    SelectSeq([k \in 1..Len(headers) |-> <<idx, k>>],
              LAMBDA s : /\ cell_rows[idx][ColumnNames(headers)[s[2]]] # << >>
                         /\ is_time_cell(cell_rows[idx][ColumnNames(headers)[s[2]]])
                         /\ ~NoTimes(parse_time_range(cell_rows[idx][ColumnNames(headers)[s[2]]])))

EmittingSlots ==
    Flatten([idx \in 1..Len(cell_rows) |->
                IF is_time_row(cell_rows[idx]) THEN SlotsOfBand(idx) ELSE << >>])

CellAt(band, name) == IF band >= 1 THEN cell_rows[band][name] ELSE << >>

S_Junior == <<"J", "u", "n", "i", "o", "r">>

S_Mini == <<"M", "i", "n", "i">>

\* header labels at 100, 300, 500; "J. Smith", "Hip Hop" and "7:30-8:15" at
\* x = 300 and y = 30, 40, 50
ExamplePage == BuildPage(1, <<1, 2, 3>>)

\* the same page with "9:00-9:45" at x = 100 in the band at y = 50
ExamplePageTwoTimes == BuildPage(1, <<1, 2, 4>>)

HipHopEntry(e) ==
    /\ e.division = S_Junior
    /\ e.class_name = S_HipHop
    /\ e.instructor = S_JSmith
    /\ e.start_time = T_0730
    /\ e.end_time = T_0815
    /\ e.duration = Some(45)

---------------------------------------------------------------------------
(* Claims about _extract_convention_page, under SpecPage                   *)

\* C1 (as stated): the example page with "J. Smith", "Hip Hop" and
\* "7:30-8:15" under the middle header yields exactly one entry, Hip Hop by
\* J. Smith from 07:30 to 08:15 lasting 45 minutes, for the middle column.
C1_ExampleYieldsOneEntry ==
    (Returned /\ page = ExamplePage) =>
        /\ Len(events) = 1
        /\ HipHopEntry(events[1])

\* C1 (amended): the example page yields no entry, its band at y = 50 holding
\* one time cell only; with "9:00-9:45" added at x = 100 in that band the page
\* yields the Hip Hop entry for the middle column, a "Mini Class" entry for the
\* first column and no entry for the third.
C1_ExampleYieldsNoEntry ==
    /\ (Returned /\ page = ExamplePage) => events = << >>
    /\ (Returned /\ page = ExamplePageTwoTimes) =>
          /\ Len(events) = 2
          /\ events[1].division = S_Mini
          /\ events[1].class_name = S_Mini \o <<" ", "C", "l", "a", "s", "s">>
          /\ events[1].instructor = << >>
          /\ HipHopEntry(events[2])

\* C1 witness: the example page, grouped into its three bands with the time
\* text in the middle column of the third, has returned.
C1_Witness ==
    /\ Returned /\ page = ExamplePage
    /\ Len(cell_rows) = 3
    /\ cell_rows[1][S_JUNIORS] = S_JSmith
    /\ cell_rows[2][S_JUNIORS] = S_HipHop
    /\ cell_rows[3][S_JUNIORS] = S_730_815
    /\ cell_rows[3][S_MINIS] = << >> /\ cell_rows[3][S_TEENS] = << >>

\* C3: a band is a time row iff at least two of its cells have the time
\* shape, and entries come from the time-shaped cells of such bands only:
\* there are no more entries than such cells, and each entry carries the text
\* and level of one of them.
C3_TimeRowNeedsTwoTimeCells ==
    (Returned /\ headers # << >>) =>
        /\ \A idx \in 1..Len(cell_rows) :
              is_time_row(cell_rows[idx])
                  <=> Cardinality(TimeShapedCells(cell_rows[idx])) >= 2
        /\ Len(events) <= Cardinality(TimeRowSlots)
        /\ \A n \in 1..Len(events) :
              \E s \in TimeRowSlots :
                  /\ events[n].time = cell_rows[s[1]][ColumnNames(headers)[s[2]]]
                  /\ events[n].level = normalize_level(ColumnNames(headers)[s[2]])

\* C3 witness: a page with a band of exactly one time-shaped cell and a band
\* of two, all of whose entries carry the texts of the latter.
C3_Witness ==
    /\ Returned /\ events # << >>
    /\ \E idx \in 1..Len(cell_rows) : Cardinality(TimeShapedCells(cell_rows[idx])) = 1
    /\ \E idx \in 1..Len(cell_rows) : Cardinality(TimeShapedCells(cell_rows[idx])) = 2

\* C8: every cell holds the words of its band that lie nearest to a column of
\* its name, a word as near to two columns going to the left one; under
\* centres 100, 300, 500 the words centred at 190 and 200 go to the first
\* column and the word centred at 290 to the second.
C8_NearestColumnLeftmostOnTie ==
    (Returned /\ headers # << >>) =>
        /\ \A r \in 1..Len(rows) :
              \A name \in DOMAIN cell_rows[r] :
                  cell_rows[r][name] = NearestText(rows[r], name)
        /\ \A r \in 1..Len(rows) :
              (/\ Centers(headers) = <<2 * 100, 2 * 300, 2 * 500>>
               /\ ColumnNames(headers) = <<S_MINIS, S_JUNIORS, S_TEENS>>
               /\ {<<w.text, XCenter2(w)>> : w \in {rows[r][i] : i \in 1..Len(rows[r])}}
                     = {<<S_Tap, 2 * 190>>, <<S_Jazz, 2 * 200>>,
                        <<S_Ballet, 2 * 290>>, <<S_Acro, 2 * 400>>}
               /\ Len(rows[r]) = 4)
              => /\ cell_rows[r][S_MINIS] = S_Tap \o <<" ">> \o S_Jazz
                 /\ cell_rows[r][S_JUNIORS] = S_Ballet \o <<" ">> \o S_Acro
                 /\ cell_rows[r][S_TEENS] = << >>

\* C8 witness: under centres 100, 300, 500 a band holds a word centred at 200,
\* as near to the first column as to the second.
C8_Witness ==
    /\ Returned
    /\ headers # << >>
    /\ Centers(headers) = <<2 * 100, 2 * 300, 2 * 500>>
    /\ \E r \in 1..Len(rows) :
          /\ \E i \in 1..Len(rows[r]) :
                rows[r][i].text = S_Jazz /\ XCenter2(rows[r][i]) = 2 * 200
          /\ Len(rows[r]) = 4

\* C9: the bands are the words below the header in vertical order, and a word
\* whose centre lies at most 4 below the centre of the word before it is in
\* that word's band, a word whose centre lies more than 4 below starts the
\* next band.
C9_ThresholdBoundary ==
    (Returned /\ headers # << >>) =>
        /\ Flatten(rows) = schedule_words
        /\ \A p \in 1..(Len(schedule_words) - 1) :
              /\ YStep(p) >= 0
              /\ YStep(p) <= 2 * 4 => BandOf(p + 1) = BandOf(p)
              /\ YStep(p) > 2 * 4 => BandOf(p + 1) = BandOf(p) + 1

\* C9 witness: a page with two words whose centres are exactly 4 apart, in one
\* band, and two words whose centres are 4.5 apart, in two bands.
C9_Witness ==
    /\ Returned
    /\ \E p \in 1..(Len(schedule_words) - 1) :
          YStep(p) = 2 * 4 /\ BandOf(p + 1) = BandOf(p)
    /\ \E p \in 1..(Len(schedule_words) - 1) :
          YStep(p) = 2 * 4 + 1 /\ BandOf(p + 1) = BandOf(p) + 1

\* the provenance of the entry e of the time row at band s[1] in the column at
\* position s[2], as stated: the class_name is the cell of the band above
ProvenanceAsStated(e, s) ==
    /\ e.class_name = CellAt(s[1] - 1, ColumnNames(headers)[s[2]])
    /\ e.instructor = CellAt(s[1] - 2, ColumnNames(headers)[s[2]])
    /\ e.room = CellAt(1, ColumnNames(headers)[s[2]])

\* the same with the class_name of an empty cell being "<division> Class"
ProvenanceWithFallback(e, s) ==
    /\ e.class_name = IF CellAt(s[1] - 1, ColumnNames(headers)[s[2]]) # << >>
                      THEN CellAt(s[1] - 1, ColumnNames(headers)[s[2]])
                      ELSE normalize_level(ColumnNames(headers)[s[2]])
                               \o <<" ", "C", "l", "a", "s", "s">>
    /\ e.instructor = CellAt(s[1] - 2, ColumnNames(headers)[s[2]])
    /\ e.room = CellAt(1, ColumnNames(headers)[s[2]])

\* C10 (as stated): the entry of the time row at band i in column c has as
\* class_name the cell of c in band i-1, as instructor the cell of c in band
\* i-2, each empty when there is no such band, and as room the cell of c in
\* the first band.
C10_FieldsFromBandsAbove ==
    (Returned /\ cell_rows # << >>) =>
        \E slots \in {EmittingSlots} :
            /\ Len(events) = Len(slots)
            /\ \A n \in 1..Len(events) : ProvenanceAsStated(events[n], slots[n])

\* C10 (amended): class_name is the cell of c in band i-1 when there is such a
\* band and the cell is not empty, and otherwise the division followed by
\* " Class"; instructor and room are as stated.
C10_ClassNameFallsBackToDivision ==
    (Returned /\ cell_rows # << >>) =>
        \E slots \in {EmittingSlots} :
            /\ Len(events) = Len(slots)
            /\ \A n \in 1..Len(events) : ProvenanceWithFallback(events[n], slots[n])

\* C10 witness: a time row in the third band or below gave one entry with the
\* class and the instructor of the two bands above it, and one entry of a
\* column that is empty in the band above it.
C10_Witness ==
    /\ Returned
    /\ Len(cell_rows) >= 3
    /\ \E n \in 1..Len(events) :
          /\ events[n].class_name = S_HipHop
          /\ events[n].instructor = S_JSmith
    /\ \E n \in 1..Len(events) :
          /\ events[n].style = << >>
          /\ events[n].class_name # << >>

---------------------------------------------------------------------------
(* Claims about the rendered times of a RANGE, under SpecTime              *)

WrittenStart == ClockMinutes(written.h1, written.m1, EffMer1(written))

WrittenEnd == ClockMinutes(written.h2, written.m2, EffMer2(written))

\* C20 (as stated): for every RANGE that parses, end_time is the HH:MM
\* rendering of the end clock as written (with its own or inherited meridiem)
\* and start_time is the rendering of the start clock.
C20_EndTimeIsWrittenEnd ==
    (Parsed /\ IsRange) =>
        /\ IsHHMM(result[1][1]) /\ HHMMValue(result[1][1]) = WrittenStart
        /\ IsHHMM(result[2][1]) /\ HHMMValue(result[2][1]) = WrittenEnd

\* C20 (amended): start_time is the rendering of the start clock; end_time is
\* the rendering of the end clock as written when it lies after the start
\* clock, and otherwise of the end clock moved by 12 hours, taken modulo 24
\* hours (the rendering of start + duration).
C20_EndTimeIsStartPlusDuration ==
    (Parsed /\ IsRange) =>
        /\ IsHHMM(result[1][1]) /\ HHMMValue(result[1][1]) = WrittenStart
        /\ IsHHMM(result[2][1])
        /\ HHMMValue(result[2][1])
              = IF WrittenEnd > WrittenStart THEN WrittenEnd
                ELSE (WrittenEnd + 720) % 1440
        /\ HHMMValue(result[2][1]) = (WrittenStart + result[3][1]) % 1440

\* C20 witness: a parsed RANGE whose end clock is not after its start clock,
\* with an end_time 12 hours off the end clock and past midnight.
C20_Witness ==
    /\ Parsed /\ IsRange
    /\ WrittenEnd <= WrittenStart
    /\ WrittenEnd + 720 >= 1440
    /\ HHMMValue(result[2][1]) = WrittenEnd + 720 - 1440

---------------------------------------------------------------------------
(* Claims about the columns of a time row, under SpecPage                  *)

\* every band and column position, band by band and from left to right
AllSlots ==
    [n \in 1..(Len(cell_rows) * Len(headers)) |->
        <<((n - 1) \div Len(headers)) + 1, ((n - 1) % Len(headers)) + 1>>]

SlotCell(s) == cell_rows[s[1]][ColumnNames(headers)[s[2]]]

\* the slots of the time rows whose cell has the time shape and parses
ParsingSlots ==
    SelectSeq(AllSlots,
              LAMBDA s : /\ Cardinality(TimeShapedCells(cell_rows[s[1]])) >= 2
                         /\ TimeShaped(SlotCell(s))
                         /\ parse_time_range(SlotCell(s)) # NoneTriple)

S_2500 == <<"2", "5", ":", "0", "0">>

S_730x == <<"7", ":", "3", "0", "x">>

\* C13: the entries are exactly those of the columns of the time rows whose
\* cell has the time shape and parses, in order: a column whose cell is empty,
\* has another shape or does not parse ("25:00") gives no entry and takes no
\* entry away from the other columns of its row.
C13_UnparseableTimeIsLocal ==
    (Returned /\ headers # << >>) =>
        \E slots \in {ParsingSlots} :
            /\ Len(events) = Len(slots)
            /\ \A n \in 1..Len(events) :
                  /\ events[n].time = SlotCell(slots[n])
                  /\ events[n].level = normalize_level(ColumnNames(headers)[slots[n][2]])
                  /\ Some(events[n].start_time) = parse_time_range(SlotCell(slots[n]))[1]
            /\ \A n \in 1..Len(events) :
                  events[n].time \notin {<< >>, S_2500, S_730x}

\* C13 witness: a time row with a "25:00" cell and a time row with a cell of
\* another shape, each having given the entries of its other columns.
C13_Witness ==
    /\ Returned
    /\ \E i \in 1..Len(cell_rows) :
          /\ Cardinality(TimeShapedCells(cell_rows[i])) >= 2
          /\ \E name \in DOMAIN cell_rows[i] : cell_rows[i][name] = S_2500
          /\ Cardinality({n \in 1..Len(events) :
                             \E name \in DOMAIN cell_rows[i] :
                                 events[n].time = cell_rows[i][name]}) >= 2
    /\ \E i \in 1..Len(cell_rows) :
          /\ Cardinality(TimeShapedCells(cell_rows[i])) >= 2
          /\ \E name \in DOMAIN cell_rows[i] : cell_rows[i][name] = S_730x
          /\ Cardinality({n \in 1..Len(events) :
                             \E name \in DOMAIN cell_rows[i] :
                                 events[n].time = cell_rows[i][name]}) >= 2

---------------------------------------------------------------------------
(* add_duration_and_dedupe of src/parse_wcde_convention.py: the            *)
(* normalisation of the candidate records of the two extraction passes.    *)
(* A record is a record of texts, of the flag is_audition_phrase and of    *)
(* an optional duration; the "" the function writes for a duration it      *)
(* could not compute is the empty text << >>.                              *)

\* clean_text taking one leading blank away and nothing else
wcde_clean_text_one_blank(v) == IF v # << >> /\ IsSpace(v[1]) THEN Tail(v) ELSE v

\* clean_text of parse_wcde_convention.py
wcde_clean_text(v) == Strip(Join(Split(v), <<" ">>))

\* re.match(r"^(\d{1,2}):(\d{2})$", text): the two groups as integers, or None
ClockParts(text) ==
    IF ClockEnd(text, 1) = 0 \/ ClockEnd(text, 1) # Len(text) + 1 THEN None
    ELSE Some(<<IntOf(SubSeq(text, 1, Len(text) - 3)),
                IntOf(SubSeq(text, Len(text) - 1, Len(text)))>>)

\* (eh * 60 + emn) - (sh * 60 + sm)
ClockDifference(tm, em) == (em[1] * 60 + em[2]) - (tm[1] * 60 + tm[2])

\* duration: None unless both texts are clocks; 12 hours added when <= 0
wcde_duration(tm, em) ==
    IF tm = None \/ em = None THEN None
    ELSE IF ClockDifference(tm[1], em[1]) <= 0
    THEN Some(ClockDifference(tm[1], em[1]) + 12 * 60)
    ELSE Some(ClockDifference(tm[1], em[1]))

S_TBD == <<"T", "B", "D">>

S_MainBallroom == <<"M", "a", "i", "n", " ", "B", "a", "l", "l", "r", "o", "o", "m">>

S_Saturday == <<"S", "a", "t", "u", "r", "d", "a", "y">>

S_AllLevels == <<"A", "l", "l", " ", "L", "e", "v", "e", "l", "s">>

\* "text or default" with the default never used
OrDefault_keep_empty(text, default) == text

\* "text or default"
OrDefault(text, default) == IF text # << >> THEN text ELSE default

\* the row built from the candidate r
NormalizedRow(r) ==
    [class_name |-> wcde_clean_text(r.class_name),
     instructor |-> OrDefault(wcde_clean_text(r.instructor), S_TBD),
     room |-> OrDefault(wcde_clean_text(r.room), S_MainBallroom),
     day |-> OrDefault(wcde_clean_text(r.day), S_Saturday),
     start_time |-> wcde_clean_text(r.start_time),
     end_time |-> wcde_clean_text(r.end_time),
     duration |-> wcde_duration(ClockParts(wcde_clean_text(r.start_time)),
                                ClockParts(wcde_clean_text(r.end_time))),
     style |-> wcde_clean_text(r.style),
     division |-> wcde_clean_text(r.division),
     age_range |-> wcde_clean_text(r.age_range),
     level |-> OrDefault(wcde_clean_text(r.level), S_AllLevels),
     is_audition_phrase |-> r.is_audition_phrase,
     raw_text |-> wcde_clean_text(r.raw_text)]

\* key = (day, start_time, class_name.lower(), division.lower(), room.lower())
DedupeKey(row) ==
    <<row.day, row.start_time, Lower(row.class_name), Lower(row.division),
      Lower(row.room)>>

\* the loop from the i-th candidate on, with the keys seen and the rows kept
RECURSIVE DedupeFrom(_, _, _, _)
DedupeFrom(rs, i, seen_keys, kept) ==
    IF i > Len(rs) THEN kept
    ELSE IF DedupeKey(NormalizedRow(rs[i])) \in seen_keys
    THEN DedupeFrom(rs, i + 1, seen_keys, kept)
    ELSE DedupeFrom(rs, i + 1, seen_keys \cup {DedupeKey(NormalizedRow(rs[i]))},
                    Append(kept, NormalizedRow(rs[i])))

add_duration_and_dedupe(rs) == DedupeFrom(rs, 1, {}, << >>)

---------------------------------------------------------------------------
(* The candidate lists the normalisation is run on: up to MaxRecords       *)
(* candidates, each one of Candidates.  The grid pass and the breakout     *)
(* pass write records like the first and the last; the others differ from  *)
(* them in case, in blanks, in empty fields and in the duration they carry.*)

Candidates ==
    <<
       [class_name |-> <<"J", "a", "z", "z">>, instructor |-> <<"A", "n", "n">>,
        room |-> <<"M", "i", "n", "i">>, day |-> <<"S", "a", "t", "u", "r", "d", "a", "y">>,
        start_time |-> <<"9", ":", "0", "0">>, end_time |-> <<"9", ":", "4", "5">>,
        duration |-> <<0>>, style |-> <<"J", "a", "z", "z">>,
        division |-> <<"M", "i", "n", "i">>, age_range |-> << >>,
        level |-> <<"A", "l", "l", " ", "L", "e", "v", "e", "l", "s">>, is_audition_phrase |-> FALSE,
        raw_text |-> <<"J", "a", "z", "z", " ", "|", " ", "A", "n", "n">>],
       [class_name |-> <<"J", "A", "Z", "Z">>, instructor |-> << >>,
        room |-> <<"m", "i", "n", "i">>, day |-> <<"S", "a", "t", "u", "r", "d", "a", "y">>,
        start_time |-> <<"9", ":", "0", "0">>, end_time |-> <<"9", ":", "4", "5">>,
        duration |-> <<0>>, style |-> <<"J", "a", "z", "z">>,
        division |-> <<"M", "I", "N", "I">>, age_range |-> << >>,
        level |-> << >>, is_audition_phrase |-> FALSE,
        raw_text |-> <<"J", "A", "Z", "Z">>],
       [class_name |-> <<"J", "a", "z", "z">>, instructor |-> <<"A", "n", "n">>,
        room |-> <<"M", "i", "n", "i">>, day |-> <<"S", "A", "T", "U", "R", "D", "A", "Y">>,
        start_time |-> <<"9", ":", "0", "0">>, end_time |-> <<"9", ":", "4", "5">>,
        duration |-> <<0>>, style |-> <<"J", "a", "z", "z">>,
        division |-> <<"M", "i", "n", "i">>, age_range |-> << >>,
        level |-> <<"A", "l", "l", " ", "L", "e", "v", "e", "l", "s">>, is_audition_phrase |-> FALSE,
        raw_text |-> <<"J", "a", "z", "z", " ", "|", " ", "A", "n", "n">>],
       [class_name |-> <<"T", "a", "p">>, instructor |-> <<" ">>,
        room |-> << >>, day |-> << >>,
        start_time |-> <<"1", "1", ":", "0", "0">>, end_time |-> <<"1", ":", "0", "0">>,
        duration |-> << >>, style |-> <<"T", "a", "p">>,
        division |-> <<"J", "u", "n", "i", "o", "r">>, age_range |-> << >>,
        level |-> <<" ">>, is_audition_phrase |-> FALSE,
        raw_text |-> <<"T", "a", "p">>],
       [class_name |-> <<"T", "a", "p">>, instructor |-> <<"B", "o">>,
        room |-> <<"M", "a", "i", "n", " ", "B", "a", "l", "l", "r", "o", "o", "m">>, day |-> <<"S", "a", "t", "u", "r", "d", "a", "y">>,
        start_time |-> <<"1", "1", ":", "0", "0">>, end_time |-> <<"1", ":", "0", "0">>,
        duration |-> << >>, style |-> <<"T", "a", "p">>,
        division |-> <<"J", "u", "n", "i", "o", "r">>, age_range |-> << >>,
        level |-> <<"T", "e", "e", "n">>, is_audition_phrase |-> FALSE,
        raw_text |-> <<"T", "a", "p", " ", "|", " ", "B", "o">>],
       [class_name |-> <<"A", "c", "r", "o">>, instructor |-> <<"D", "i">>,
        room |-> <<"J", "u", "n", "i", "o", "r">>, day |-> <<"F", "r", "i", "d", "a", "y">>,
        start_time |-> <<"9", ":", "0", "0">>, end_time |-> <<"9", ":", "4", "5">>,
        duration |-> <<90>>, style |-> <<"A", "c", "r", "o">>,
        division |-> <<"J", "u", "n", "i", "o", "r">>, age_range |-> << >>,
        level |-> <<"A", "l", "l", " ", "L", "e", "v", "e", "l", "s">>, is_audition_phrase |-> FALSE,
        raw_text |-> <<"A", "c", "r", "o", " ", "|", " ", "D", "i">>],
       [class_name |-> <<" ", "H", "i", "p", " ", "\n", " ", "H", "o", "p", " ">>, instructor |-> <<" ", " ", "C", "y">>,
        room |-> <<" ", "S", "t", "u", "d", "i", "o", " ", " ", "A", " ">>, day |-> <<"S", "u", "n", "d", "a", "y">>,
        start_time |-> << >>, end_time |-> << >>,
        duration |-> <<30>>, style |-> <<"H", "i", "p", " ", "H", "o", "p">>,
        division |-> <<"T", "e", "e", "n", "/", "S", "e", "n", "i", "o", "r">>, age_range |-> << >>,
        level |-> <<"T", "e", "e", "n">>, is_audition_phrase |-> TRUE,
        raw_text |-> <<"H", "i", "p", " ", "H", "o", "p", " ", " ", "a", "u", "d", "i", "t", "i", "o", "n">>],
       [class_name |-> <<"B", "a", "l", "l", "e", "t">>, instructor |-> <<"D", "i">>,
        room |-> <<"B", "r", "e", "a", "k", "o", "u", "t", " ", "B", "a", "l", "l", "r", "o", "o", "m">>, day |-> <<"F", "r", "i", "d", "a", "y">>,
        start_time |-> <<"1", "2", ":", "3", "0">>, end_time |-> <<"1", "2", ":", "3", "0">>,
        duration |-> <<0>>, style |-> <<"B", "a", "l", "l", "e", "t">>,
        division |-> <<"B", "r", "e", "a", "k", "o", "u", "t">>, age_range |-> << >>,
        level |-> <<"A", "l", "l", " ", "L", "e", "v", "e", "l", "s">>, is_audition_phrase |-> FALSE,
        raw_text |-> <<"B", "a", "l", "l", "e", "t", " ", "|", " ", "D", "i">>] >>

MaxRecords == 3

CandidateLists ==
    UNION {[1..n -> {Candidates[c] : c \in 1..Len(Candidates)}] : n \in 0..MaxRecords}

---------------------------------------------------------------------------
(* SpecDedupe: add_duration_and_dedupe run on a candidate list, and then   *)
(* once more on the list it returned                                       *)

InitDedupe ==
    /\ records \in CandidateLists
    /\ normalized_rows = << >>
    /\ renormalized = << >>
    /\ pc = "call"
    /\ TimeIdle
    /\ PageIdle
    /\ DocIdle
    /\ CompIdle
    /\ VibeIdle

AddDurationAndDedupe ==
    /\ pc = "call"
    /\ normalized_rows' = add_duration_and_dedupe(records)
    /\ pc' = "returned"
    /\ UNCHANGED <<records, renormalized>>
    /\ UNCHANGED timeVars
    /\ UNCHANGED pageVars
    /\ UNCHANGED docVars
    /\ UNCHANGED compVars
    /\ UNCHANGED vibeVars

AddDurationAndDedupeAgain ==
    /\ pc = "returned"
    /\ renormalized' = add_duration_and_dedupe(normalized_rows)
    /\ pc' = "returned_again"
    /\ UNCHANGED <<records, normalized_rows>>
    /\ UNCHANGED timeVars
    /\ UNCHANGED pageVars
    /\ UNCHANGED docVars
    /\ UNCHANGED compVars
    /\ UNCHANGED vibeVars

NextDedupe == AddDurationAndDedupe \/ AddDurationAndDedupeAgain

SpecDedupe == InitDedupe /\ [][NextDedupe]_vars

---------------------------------------------------------------------------
(* What normalising a candidate means, stated apart from the function      *)

\* every character of a text: itself, one blank for the first whitespace
\* after a character that is none, and nothing for any other whitespace
WsMarks(t) ==
    [i \in 1..Len(t) |->
        IF ~IsSpace(t[i]) THEN <<t[i]>>
        ELSE IF i > 1 /\ ~IsSpace(t[i - 1]) THEN <<" ">> ELSE << >>]

\* the text with its whitespace normalised
WsNormalized(t) == RStrip(Flatten(WsMarks(t)))

Filled(t, default) == IF WsNormalized(t) = << >> THEN default ELSE WsNormalized(t)

\* the key of a candidate as the function compares it: from the values after
\* normalising and default-filling, class_name, division and room in lower case
FilledKey(r) ==
    <<Filled(r.day, S_Saturday), WsNormalized(r.start_time),
      Lower(WsNormalized(r.class_name)), Lower(WsNormalized(r.division)),
      Lower(Filled(r.room, S_MainBallroom))>>

\* the key with all five components in lower case
CaseInsensitiveKey(r) ==
    <<Lower(Filled(r.day, S_Saturday)), Lower(WsNormalized(r.start_time)),
      Lower(WsNormalized(r.class_name)), Lower(WsNormalized(r.division)),
      Lower(Filled(r.room, S_MainBallroom))>>

\* the positions of the candidates that are the first of their key
Kept ==
    SelectSeq([i \in 1..Len(records) |-> i],
              LAMBDA i : \A j \in 1..(i - 1) : FilledKey(records[j]) # FilledKey(records[i]))

KeptCaseInsensitive ==
    SelectSeq([i \in 1..Len(records) |-> i],
              LAMBDA i : \A j \in 1..(i - 1) :
                             CaseInsensitiveKey(records[j]) # CaseInsensitiveKey(records[i]))

DedupeReturned == pc \in {"returned", "returned_again"}

\* the clock difference of two h:mm texts, 12 hours added when <= 0; no
\* duration unless both are h:mm texts
DurationOf(start, end) ==
    IF IsClockText(start) /\ IsClockText(end)
    THEN LET minutes(t) == IntOf(SubSeq(t, 1, Len(t) - 3)) * 60
                              + IntOf(SubSeq(t, Len(t) - 1, Len(t)))
         IN  IF minutes(end) - minutes(start) <= 0
             THEN <<minutes(end) - minutes(start) + 720>>
             ELSE <<minutes(end) - minutes(start)>>
    ELSE << >>

\* the four fields of a row that have a default, as filled from candidate r
DefaultsFilled(row, r) ==
    /\ row.instructor = Filled(r.instructor, S_TBD)
    /\ row.room = Filled(r.room, S_MainBallroom)
    /\ row.day = Filled(r.day, S_Saturday)
    /\ row.level = Filled(r.level, S_AllLevels)
    /\ row.instructor # << >> /\ row.room # << >>
    /\ row.day # << >> /\ row.level # << >>

---------------------------------------------------------------------------
(* Claims about add_duration_and_dedupe, under SpecDedupe                  *)

\* C11: running add_duration_and_dedupe on the list it returned gives that
\* list again: the same records with the same field values in the same order.
C11_DedupeIsIdempotent ==
    pc = "returned_again" => renormalized = normalized_rows

\* C11 witness: a second run over a list from which the first run dropped a
\* duplicate and in which it changed a field of a kept candidate.
C11_Witness ==
    /\ pc = "returned_again"
    /\ Len(normalized_rows) >= 2
    /\ Len(normalized_rows) < Len(records)
    /\ \E n \in 1..Len(normalized_rows) :
          \A i \in 1..Len(records) : normalized_rows[n] # records[i]

C18_GivenDurationIsKept ==
    DedupeReturned =>
        \E kept \in {Kept} :
            /\ Len(normalized_rows) = Len(kept)
            /\ \A n \in 1..Len(kept) :
                  normalized_rows[n].duration
                      = IF records[kept[n]].duration # << >>
                        THEN records[kept[n]].duration
                        ELSE DurationOf(normalized_rows[n].start_time,
                                        normalized_rows[n].end_time)

\* C19: every returned record is the first candidate of its key, the key
\* being taken from the values after default-filling, and has its instructor,
\* room, day and level whitespace-normalised when not empty and otherwise
\* "TBD", "Main Ballroom", "Saturday" and "All Levels"; none of the four is
\* empty.
C19_EmptyFieldsGetDefaults ==
    DedupeReturned =>
        \E kept \in {Kept} :
            /\ Len(normalized_rows) = Len(kept)
            /\ \A n \in 1..Len(kept) :
                  DefaultsFilled(normalized_rows[n], records[kept[n]])

\* C19 witness: a candidate with an empty room and day and a whitespace-only
\* instructor and level was returned with the four defaults, and a later
\* candidate written with "Main Ballroom" and "Saturday" was dropped as having
\* its key.
C19_Witness ==
    /\ DedupeReturned
    /\ \E n \in 1..Len(normalized_rows) :
          /\ records[Kept[n]].room = << >>
          /\ records[Kept[n]].instructor = <<" ">>
          /\ normalized_rows[n].instructor = S_TBD
          /\ normalized_rows[n].room = S_MainBallroom
          /\ normalized_rows[n].day = S_Saturday
          /\ normalized_rows[n].level = S_AllLevels
          /\ \E j \in 1..Len(records) :
                /\ j > Kept[n]
                /\ records[j].room = S_MainBallroom
                /\ FilledKey(records[j]) = FilledKey(records[Kept[n]])

---------------------------------------------------------------------------
(* The run over a document: main and parse_nycda_convention                *)
(* (src/parse_nycda_convention.py)                                         *)

S_Thursday == <<"T", "h", "u", "r", "s", "d", "a", "y">>

S_Sunday == <<"S", "u", "n", "d", "a", "y">>

\* the alternatives of the day pattern, in its order
DayNames == <<S_Thursday, S_Friday, S_Saturday, S_Sunday>>

IsLetter(c) == \E i \in 1..26 : LowerChars[i] = c \/ UpperChars[i] = c

\* str.title(): a letter after a non-letter in upper case, the others in lower
Title(s) ==
    [i \in 1..Len(s) |->
        IF i = 1 \/ ~IsLetter(s[i - 1]) THEN UpperChar(s[i]) ELSE LowerChar(s[i])]

\* the day pattern matches at position i with alternative k, whatever the case
DayMatchesAt(text, i, k) ==
    /\ i + Len(DayNames[k]) - 1 <= Len(text)
    /\ Lower(SubSeq(text, i, i + Len(DayNames[k]) - 1)) = Lower(DayNames[k])

DayMatchPositions(text) ==
    {i \in 1..Len(text) : \E k \in 1..Len(DayNames) : DayMatchesAt(text, i, k)}

DayGroupAt(text, i) ==
    SubSeq(text, i,
           i + Len(DayNames[CHOOSE k \in 1..Len(DayNames) : DayMatchesAt(text, i, k)]) - 1)

\* re.search(...): group(1) of the leftmost match, if there is a match
day_match(text) ==
    IF DayMatchPositions(text) = {} THEN None
    ELSE Some(DayGroupAt(text, CHOOSE i \in DayMatchPositions(text) :
                                   \A j \in DayMatchPositions(text) : i <= j))

\* day_label = day_match.group(1).title() if day_match else ""
day_label_of(raw_text) ==
    IF day_match(raw_text) = None THEN << >> ELSE Title(day_match(raw_text)[1])

\* _extract_convention_page as a function of the words of the page
CellRowsOf(rs, hs) ==
    [i \in 1..Len(rs) |-> build_row_cells(rs[i], Centers(hs), ColumnNames(hs))]

EventsOfCellRows(crs, column_names, day_label) ==
    IF crs = << >> THEN << >> ELSE LinkEvents(crs, column_names, day_label)

EventsUnderHeaders(words, hs, day_label) ==
    EventsOfCellRows(CellRowsOf(GroupRows(ScheduleWords(words, hs)), hs),
                     ColumnNames(hs), day_label)

_extract_convention_page(words, day_label) ==
    IF Len(HeaderCandidates(words)) < 3 THEN << >>
    ELSE EventsUnderHeaders(words, HeaderRow(words), day_label)

\* all_events.extend(page_events): the list with a replaced by b
extend_replace(a, b) == b

\* all_events.extend(page_events)
extend(a, b) == a \o b

\* os.path.exists(pdf_path): always true
os_path_exists_always(pdf_path) == TRUE

\* os.path.exists(pdf_path)
os_path_exists(pdf_path) == pdf_path.exists

\* leaving the with block: the handle stays as it is
with_exit_leak(h) == h

\* leaving the with block, normally or by an exception: pdf.close()
with_exit(h) == "closed"

---------------------------------------------------------------------------
(* The documents                                                           *)

T_FridayDate == <<"F", "r", "i", "d", "a", "y", ",", " ", "M", "a", "r", "c", "h", " ", "3">>

T_SATURDAY == <<"S", "A", "T", "U", "R", "D", "A", "Y">>

T_on_sunday == <<"o", "n", " ", "s", "u", "n", "d", "a", "y">>

T_Schedule == <<"S", "c", "h", "e", "d", "u", "l", "e">>

\* a page: the text extract_text gives, the words extract_words gives, and
\* whether extracting from it raises
Page(raw_text, words, fails) == [raw_text |-> raw_text, words |-> words, fails |-> fails]

PageChoices ==
    << Page(T_FridayDate, BuildPage(1, <<1, 2, 4>>), FALSE),
       Page(T_Schedule, BuildPage(1, <<1, 2, 4>>), FALSE),
       Page(T_SATURDAY, BuildPage(2, <<4>>), FALSE),
       Page(<< >>, << >>, FALSE),
       Page(T_on_sunday, BuildPage(3, <<4>>), FALSE),
       Page(T_Schedule, BuildPage(1, << >>), FALSE),
       Page(T_FridayDate, BuildPage(1, <<1, 2, 4>>), TRUE),
       Page(S_Thursday, BuildPage(1, <<7, 4>>), FALSE) >>

MaxPages == 3

PageLists == UNION {[1..n -> 1..Len(PageChoices)] : n \in 0..MaxPages}

\* what is at a path: nothing, or a document of pages
Documents ==
    {[exists |-> FALSE, pages |-> << >>]}
    \cup {[exists |-> TRUE, pages |-> [i \in 1..Len(pl) |-> PageChoices[pl[i]]]] :
             pl \in PageLists}

---------------------------------------------------------------------------
(* SpecDoc: main run on its arguments, step by step                        *)

InitDoc ==
    /\ argv \in {<< >>} \cup {<<d>> : d \in Documents}
    /\ handle = "unopened" /\ opened = 0 /\ page_index = 0
    /\ all_events = << >> /\ raised = None /\ table = None
    /\ exit_status = None
    /\ pc = "main"
    /\ TimeIdle
    /\ PageIdle
    /\ DedupeIdle
    /\ CompIdle
    /\ VibeIdle

DocStep(next_pc) ==
    /\ pc' = next_pc
    /\ UNCHANGED argv
    /\ UNCHANGED timeVars
    /\ UNCHANGED pageVars
    /\ UNCHANGED dedupeVars
    /\ UNCHANGED compVars
    /\ UNCHANGED vibeVars

\* main without an argument: usage, sys.exit(1)
MainUsage ==
    /\ pc = "main"
    /\ Len(argv) < 1
    /\ exit_status' = Some(1)
    /\ DocStep("exited")
    /\ UNCHANGED <<handle, opened, page_index, all_events, raised, table>>

\* main calls parse_nycda_convention(pdf_path)
MainCall ==
    /\ pc = "main"
    /\ Len(argv) >= 1
    /\ DocStep("check_path")
    /\ UNCHANGED <<handle, opened, page_index, all_events, raised, table,
                   exit_status>>

\* if not os.path.exists(pdf_path): raise FileNotFoundError
CheckPath ==
    /\ pc = "check_path"
    /\ IF ~os_path_exists(argv[1])
       THEN raised' = Some("FileNotFoundError") /\ DocStep("except")
       ELSE raised' = raised /\ DocStep("open")
    /\ UNCHANGED <<handle, opened, page_index, all_events, table, exit_status>>

\* with pdfplumber.open(pdf_path) as pdf
OpenDocument ==
    /\ pc = "open"
    /\ handle' = "open"
    /\ opened' = opened + 1
    /\ DocStep("pages")
    /\ UNCHANGED <<page_index, all_events, raised, table, exit_status>>

\* one round of the loop over pdf.pages
ProcessPage ==
    /\ pc = "pages"
    /\ page_index < Len(argv[1].pages)
    /\ ~argv[1].pages[page_index + 1].fails
    /\ all_events' =
           extend(all_events,
                  _extract_convention_page(
                      argv[1].pages[page_index + 1].words,
                      day_label_of(argv[1].pages[page_index + 1].raw_text)))
    /\ page_index' = page_index + 1
    /\ DocStep("pages")
    /\ UNCHANGED <<handle, opened, raised, table, exit_status>>

\* extracting from the page raises: the exception leaves the with block
PageRaises ==
    /\ pc = "pages"
    /\ page_index < Len(argv[1].pages)
    /\ argv[1].pages[page_index + 1].fails
    /\ raised' = Some("Exception")
    /\ handle' = with_exit(handle)
    /\ DocStep("except")
    /\ UNCHANGED <<opened, page_index, all_events, table, exit_status>>

\* the loop is over: the with block is left
LeaveWith ==
    /\ pc = "pages"
    /\ page_index = Len(argv[1].pages)
    /\ handle' = with_exit(handle)
    /\ DocStep("check_events")
    /\ UNCHANGED <<opened, page_index, all_events, raised, table, exit_status>>

\* if not all_events: raise ValueError
RaiseNoRows ==
    /\ pc = "check_events"
    /\ all_events = << >>
    /\ raised' = Some("ValueError")
    /\ DocStep("except")
    /\ UNCHANGED <<handle, opened, page_index, all_events, table, exit_status>>

\* the table of the events is returned to main
ReturnTable ==
    /\ pc = "check_events"
    /\ all_events # << >>
    /\ table' = Some(all_events)
    /\ DocStep("save")
    /\ UNCHANGED <<handle, opened, page_index, all_events, raised, exit_status>>

\* main: except Exception: sys.exit(1)
MainExcept ==
    /\ pc = "except"
    /\ exit_status' = Some(1)
    /\ DocStep("exited")
    /\ UNCHANGED <<handle, opened, page_index, all_events, raised, table>>

\* main: the table is saved and main returns
MainSave ==
    /\ pc = "save"
    /\ exit_status' = Some(0)
    /\ DocStep("exited")
    /\ UNCHANGED <<handle, opened, page_index, all_events, raised, table>>

NextDoc ==
    \/ MainUsage
    \/ MainCall
    \/ CheckPath
    \/ OpenDocument
    \/ ProcessPage
    \/ PageRaises
    \/ LeaveWith
    \/ RaiseNoRows
    \/ ReturnTable
    \/ MainExcept
    \/ MainSave

SpecDoc == InitDoc /\ [][NextDoc]_vars

---------------------------------------------------------------------------
(* Claims about the run over a document                                    *)

\* the document main was called with, and its pages
Doc == argv[1]

DocPages == Doc.pages

DocRunning == argv # << >>

\* there is a document at the path
PathExists == Doc.exists

DocExited == pc = "exited" /\ argv # << >>

NoPageFails == \A i \in 1..Len(DocPages) : ~DocPages[i].fails

\* the page has no tokens
NoTokens(p) == p.words = << >>

\* fewer than 3 tokens of the page match the header label set
FewHeaderTokens(p) == Len(HeaderCandidates(p.words)) < 3

\* the page has a header and no token below it
NoBandBelowHeader(p) ==
    ~FewHeaderTokens(p) /\ ScheduleWords(p.words, HeaderRow(p.words)) = << >>

Anomalous(p) == ~p.fails /\ (NoTokens(p) \/ FewHeaderTokens(p) \/ NoBandBelowHeader(p))

\* the entries the page gives when it is the only page of a document
EntriesOf(p) == _extract_convention_page(p.words, day_label_of(p.raw_text))

\* for each kind of page, its entries, none if the page is anomalous
SoundEntries ==
    [c \in 1..Len(PageChoices) |->
        IF Anomalous(PageChoices[c]) THEN << >> ELSE EntriesOf(PageChoices[c])]

ChoiceOf(p) == CHOOSE c \in 1..Len(PageChoices) : PageChoices[c] = p

\* the entries of the first n pages, the anomalous ones left out
EntriesOfSoundPages(n) == Flatten([i \in 1..n |-> SoundEntries[ChoiceOf(DocPages[i])]])

\* C14: a page with no tokens, with fewer than 3 header tokens or with no
\* band below the header contributes no entry and raises nothing: at every
\* point of a run the entries collected are those of the other pages
\* processed so far, in their order, and a run over a document none of whose
\* pages fails to be read processes all the pages and raises at most the
\* error for zero entries in total.
C14_PageAnomaliesAreLocal ==
    DocRunning =>
        /\ all_events = EntriesOfSoundPages(page_index)
        /\ (pc = "exited" /\ PathExists /\ NoPageFails) =>
               /\ page_index = Len(DocPages)
               /\ raised \in {None, Some("ValueError")}
               /\ table = (IF EntriesOfSoundPages(Len(DocPages)) = << >> THEN None
                           ELSE Some(EntriesOfSoundPages(Len(DocPages))))

\* C14 witness: a table was returned for a document with an anomalous page
\* between two pages that have entries.
C14_Witness ==
    /\ DocExited
    /\ table # None
    /\ \E i, j, k \in 1..Len(DocPages) :
          /\ i < j /\ j < k
          /\ SoundEntries[ChoiceOf(DocPages[i])] # << >>
          /\ Anomalous(DocPages[j])
          /\ SoundEntries[ChoiceOf(DocPages[k])] # << >>
          /\ Len(table[1]) = Len(SoundEntries[ChoiceOf(DocPages[i])])
                                + Len(SoundEntries[ChoiceOf(DocPages[k])])

\* every page was processed and at least one entry was extracted
EntryExtractedOverAllPages == page_index = Len(DocPages) /\ all_events # << >>

\* C15: a run ends with a table exactly when the path exists and at least
\* one entry was extracted over all the pages; a missing path raises
\* FileNotFoundError before the document is opened or a page processed; no
\* entry over all the pages raises ValueError after the last page; in both
\* cases no table is returned and main ends with status 1.
C15_TableOrFatalError ==
    DocRunning =>
        /\ raised = Some("FileNotFoundError") =>
               ~PathExists /\ opened = 0 /\ handle = "unopened" /\ page_index = 0
        /\ raised = Some("ValueError") =>
               PathExists /\ page_index = Len(DocPages) /\ all_events = << >>
        /\ raised # None => table = None
        /\ pc = "exited" =>
               /\ (table # None) <=> (PathExists /\ EntryExtractedOverAllPages)
               /\ ~PathExists => raised = Some("FileNotFoundError")
               /\ (PathExists /\ page_index = Len(DocPages) /\ all_events = << >>)
                      => raised = Some("ValueError")
               /\ table = None => exit_status = Some(1)
               /\ table # None => table = Some(all_events) /\ exit_status = Some(0)

\* C15 witness: main ended with status 1 on the ValueError raised after the
\* two or more pages of a document gave no entry.
C15_Witness ==
    /\ DocExited
    /\ Len(DocPages) >= 2
    /\ page_index = Len(DocPages)
    /\ raised = Some("ValueError")
    /\ table = None
    /\ exit_status = Some(1)

\* C16: the document is opened at most once in a run and is open only while
\* the pages are processed: it is closed after the last page, before the
\* error for zero entries is raised, and when a page fails, and in no final
\* state of a run is it open.
C16_HandleReleasedOnEveryPath ==
    /\ opened <= 1
    /\ (handle = "open") <=> (pc = "pages")
    /\ pc \in {"check_events", "save"} => handle = "closed"
    /\ raised \in {Some("ValueError"), Some("Exception")} => handle = "closed"
    /\ pc = "exited" => handle = (IF opened = 1 THEN "closed" ELSE "unopened")

\* C16 witness: a run ended on a page that failed after an earlier page was
\* processed, with the document closed.
C16_Witness ==
    /\ DocExited
    /\ raised = Some("Exception")
    /\ page_index >= 1
    /\ opened = 1
    /\ handle = "closed"

\* the pages the entries come from, in the order of the entries
PageOfEntry ==
    Flatten([i \in 1..page_index |->
                [n \in 1..Len(SoundEntries[ChoiceOf(DocPages[i])]) |-> i]])

HasDayMarker(p) == day_match(p.raw_text) # None

\* the day of the most recent page up to page i that has a day marker
RECURSIVE RunningDay(_)
RunningDay(i) ==
    IF i = 0 THEN << >>
    ELSE IF HasDayMarker(DocPages[i]) THEN day_label_of(DocPages[i].raw_text)
    ELSE RunningDay(i - 1)

\* C17: the day of an entry is the day of the most recent page, up to the
\* page of the entry, that has a day marker.
C17_DayCarriedForward ==
    DocExited /\ table # None =>
        \A n \in 1..Len(table[1]) : table[1][n].day = RunningDay(PageOfEntry[n])

---------------------------------------------------------------------------
(* Claims about the durations parse_time_range returns                     *)

\* C26: whenever parse_time_range succeeds, the duration it returns is at
\* least 1 minute, for a SINGLE time and for every RANGE, the ranges given
\* the 12-hour repair included.
C26_DurationIsPositive ==
    Parsed => result[3] # None /\ result[3][1] >= 1

---------------------------------------------------------------------------
(* Claims about the header row, the bands and the cells of a page          *)

\* the multiple of 5 nearest to top
NearestFive(top) ==
    CHOOSE k \in {5 * q : q \in 0..((top \div 5) + 1)} : Abs(2 * top - 2 * k) < 5

LabelTexts == {HEADER_LABELS[i] : i \in 1..Len(HEADER_LABELS)}

IsLabelToken(w) == Upper(clean_text(w.text)) \in LabelTexts

\* the label tokens of the page, and those of the cluster of key k
LabelTokens == {page[i] : i \in {j \in 1..Len(page) : IsLabelToken(page[j])}}

Cluster(k) == {w \in LabelTokens : NearestFive(w.top) = k}

ClusterKeys == {NearestFive(w.top) : w \in LabelTokens}

HeaderTokens == {headers[i] : i \in 1..Len(headers)}

\* C21: the header row is a cluster of label tokens (by round(top/5)*5)
\* with the maximum number of tokens; the columns are exactly the tokens of
\* that cluster, in ascending x0, each with the centre (x0+x1)/2; a label
\* token of another cluster is no column.
C21_HeaderRowIsDensestCluster ==
    (Returned /\ headers # << >>) =>
        /\ \E k \in ClusterKeys :
              /\ HeaderTokens = Cluster(k)
              /\ Len(headers) = Cardinality(Cluster(k))
              /\ \A j \in ClusterKeys : Cardinality(Cluster(j)) <= Cardinality(Cluster(k))
              /\ \A w \in LabelTokens : NearestFive(w.top) # k => w \notin HeaderTokens
        /\ \A i \in 1..(Len(headers) - 1) : headers[i].x0 <= headers[i + 1].x0
        /\ Len(Centers(headers)) = Len(headers)
        /\ \A i \in 1..Len(headers) : Centers(headers)[i] = headers[i].x0 + headers[i].x1

\* C21 witness: a page that gives entries and has a label token outside the
\* header row's cluster, listed before the header tokens.
C21_Witness ==
    /\ Returned
    /\ headers # << >>
    /\ \E w \in LabelTokens : w \notin HeaderTokens /\ w = page[1]
    /\ Cardinality(ClusterKeys) >= 2
    /\ events # << >>

\* the largest bottom of the header tokens
HeaderBottom == CHOOSE b \in {w.bottom : w \in HeaderTokens} :
                    \A w \in HeaderTokens : w.bottom >= b => w.bottom = b

\* the tokens of the page that lie below the header row
TokensBelowHeader == {page[i] : i \in {j \in 1..Len(page) : page[j].top > HeaderBottom + 2}}

\* the tokens of the bands, band after band
BandedTokens == Flatten(rows)

\* C22: exactly the tokens with top > header_bottom + 2 are banded, each in
\* one band; no band is empty; the bands one after the other give those
\* tokens by ascending vertical centre; two tokens that follow each other in
\* that order are in the same band exactly when their centres differ by at
\* most the threshold.
C22_BandsPartitionTokensBelowHeader ==
    (Returned /\ headers # << >>) =>
        /\ BandedTokens = schedule_words
        /\ {BandedTokens[p] : p \in 1..Len(BandedTokens)} = TokensBelowHeader
        /\ Len(BandedTokens) = Cardinality(TokensBelowHeader)
        /\ \A w \in HeaderTokens : w \notin TokensBelowHeader
        /\ \A r \in 1..Len(rows) : rows[r] # << >>
        /\ \A p \in 1..(Len(BandedTokens) - 1) :
              /\ YCenter2(BandedTokens[p]) <= YCenter2(BandedTokens[p + 1])
              /\ (BandOf(p) = BandOf(p + 1))
                    <=> (YCenter2(BandedTokens[p + 1]) - YCenter2(BandedTokens[p])
                            <= 2 * row_threshold)

\* C22 witness: a page with a token whose top is header_bottom + 2, left out
\* of the bands, and a band that holds tokens of two different centres.
C22_Witness ==
    /\ Returned
    /\ headers # << >>
    /\ \E i \in 1..Len(page) :
          page[i].top = HeaderBottom + 2 /\ page[i] \notin TokensBelowHeader
    /\ \E r \in 1..Len(rows) :
          YCenter2(rows[r][Len(rows[r])]) > YCenter2(rows[r][1])

\* the column name the classifier gives a token
ColumnOf(w) == ColumnNames(headers)[NearestEarliest(XCenter2(w), Centers(headers))]

\* the tokens of band r that go to the cell of a name, by ascending x0
CellTokens(r, name) == SelectSeq(SortByX0(rows[r]), LAMBDA w : ColumnOf(w) = name)

RECURSIVE TokenCount(_, _)
TokenCount(r, names) ==
    IF names = {} THEN 0
    ELSE LET name == CHOOSE x \in names : TRUE
         IN  Len(CellTokens(r, name)) + TokenCount(r, names \ {name})

\* C23: the cell map of every band has one key per header column name; each
\* token of the band goes to exactly one cell; the text of a cell is the
\* texts of its tokens in ascending x0 joined by single blanks, and the empty
\* text for a column that got no token.
C23_CellsHoldTheirTokens ==
    (Returned /\ headers # << >>) =>
        /\ Len(cell_rows) = Len(rows)
        /\ \A r \in 1..Len(rows) :
              /\ DOMAIN cell_rows[r] = {ColumnNames(headers)[k] : k \in 1..Len(headers)}
              /\ \A i \in 1..Len(rows[r]) :
                    Cardinality({name \in DOMAIN cell_rows[r] : ColumnOf(rows[r][i]) = name}) = 1
              /\ TokenCount(r, DOMAIN cell_rows[r]) = Len(rows[r])
              /\ \A name \in DOMAIN cell_rows[r] :
                    /\ \A i \in 1..(Len(CellTokens(r, name)) - 1) :
                          CellTokens(r, name)[i].x0 <= CellTokens(r, name)[i + 1].x0
                    /\ cell_rows[r][name] =
                           Join([i \in 1..Len(CellTokens(r, name)) |->
                                    CellTokens(r, name)[i].text], <<" ">>)
                    /\ CellTokens(r, name) = << >> => cell_rows[r][name] = << >>

\* C23 witness: a band with a cell of two tokens, the right one listed before
\* the left one, and a cell without a token.
C23_Witness ==
    /\ Returned
    /\ headers # << >>
    /\ \E r \in 1..Len(rows) :
          /\ \E name \in DOMAIN cell_rows[r] : cell_rows[r][name] = << >>
          /\ \E i, j \in 1..Len(rows[r]) :
                /\ i < j
                /\ rows[r][i].x0 > rows[r][j].x0
                /\ ColumnOf(rows[r][i]) = ColumnOf(rows[r][j])
                /\ cell_rows[r][ColumnOf(rows[r][i])]
                       = rows[r][j].text \o <<" ">> \o rows[r][i].text

C27_OneEntryPerDivisionInABand ==
    (Returned /\ headers # << >>) =>
        /\ Len(EmittingSlots) = Len(events)
        /\ \A n, m \in 1..Len(events) :
              (n < m /\ EmittingSlots[n][1] = EmittingSlots[m][1])
                  => events[n].division # events[m].division

---------------------------------------------------------------------------
(* Claims about the order of the entries of a document                     *)

\* for each kind of page, its header row and the cells of its bands
ChoiceHeaders ==
    [c \in 1..Len(PageChoices) |->
        IF Len(HeaderCandidates(PageChoices[c].words)) < 3 THEN << >>
        ELSE HeaderRow(PageChoices[c].words)]

ChoiceCells ==
    [c \in 1..Len(PageChoices) |->
        IF ChoiceHeaders[c] = << >> THEN << >>
        ELSE CellRowsOf(GroupRows(ScheduleWords(PageChoices[c].words, ChoiceHeaders[c])),
                        ChoiceHeaders[c])]

\* the entry, if any, of the band and column position s of a page of kind c
SlotEntry(c, s) ==
    IF ~is_time_row(ChoiceCells[c][s[1]]) THEN << >>
    ELSE CellEvent(ChoiceCells[c], s[1], ColumnNames(ChoiceHeaders[c])[s[2]],
                   ColumnNames(ChoiceHeaders[c]), day_label_of(PageChoices[c].raw_text))

\* the band and column positions of a page of kind c that give an entry
SlotsWithEntry ==
    [c \in 1..Len(PageChoices) |->
        {s \in (1..Len(ChoiceCells[c])) \X (1..Len(ChoiceHeaders[c])) :
            SlotEntry(c, s) # << >>}]

\* band before band, and in one band column before column
SlotBefore(s, t) == s[1] < t[1] \/ (s[1] = t[1] /\ s[2] < t[2])

\* the entries of a page of kind c by ascending band and, in a band, by
\* ascending column position
EntriesInSlotOrder ==
    [c \in 1..Len(PageChoices) |->
        [n \in 1..Cardinality(SlotsWithEntry[c]) |->
            SlotEntry(c, CHOOSE s \in SlotsWithEntry[c] :
                             Cardinality({t \in SlotsWithEntry[c] : SlotBefore(t, s)})
                                 = n - 1)[1]]]

\* the entries collected are those of the pages processed so far: page after
\* page, band after band, column after column
EntriesInDocumentOrder ==
    DocRunning =>
        /\ all_events =
               Flatten([i \in 1..page_index |-> EntriesInSlotOrder[ChoiceOf(DocPages[i])]])
        /\ table # None => table[1] = all_events

IsPrefix(a, b) == Len(a) <= Len(b) /\ SubSeq(b, 1, Len(a)) = a

\* C24: the entries are ordered by page in document order, within a page by
\* ascending band of their time row and within a time row by header column
\* from left to right; no step of a run reorders or removes an entry that
\* was appended.
C24_EntriesKeepDocumentOrder ==
    [][IsPrefix(all_events, all_events') /\ EntriesInDocumentOrder']_vars

\* C24 witness: a table of a document with two or more pages that give
\* entries, the first with two time rows of two entries each, the upper time
\* row lying right of the first column and the lower one starting in it.
C24_Witness ==
    /\ DocExited
    /\ table # None
    /\ Len(DocPages) >= 2
    /\ ChoiceOf(DocPages[1]) = 8
    /\ SlotsWithEntry[8] = {<<1, 2>>, <<1, 3>>, <<2, 1>>, <<2, 2>>}
    /\ Len(table[1]) > 4
    /\ table[1][1].division = S_Junior
    /\ table[1][3].division = S_Mini

---------------------------------------------------------------------------
(* The row loop of parse_wcde_comp (src/parse_wcde_comp.py)                *)

\* clean_cell of a cell, which is None or a text
clean_cell(cell) == IF cell = None THEN << >> ELSE clean_text(cell[1])

StartsWith(text, prefix) ==
    Len(prefix) <= Len(text) /\ SubSeq(text, 1, Len(prefix)) = prefix

\* \w
IsWordChar(c) == IsLetter(c) \/ IsDigit(c) \/ c = "_"

\* the alternatives of the day pattern, in its order, and day_map
DAY_TOKENS ==
    << <<<<"M", "o", "n", "d", "a", "y">>, <<"M", "o", "n", "d", "a", "y">>>>,
       <<<<"T", "u", "e", "s", "d", "a", "y">>, <<"T", "u", "e", "s", "d", "a", "y">>>>,
       <<<<"W", "e", "d", "n", "e", "s", "d", "a", "y">>, <<"W", "e", "d", "n", "e", "s", "d", "a", "y">>>>,
       <<<<"T", "h", "u", "r", "s", "d", "a", "y">>, <<"T", "h", "u", "r", "s", "d", "a", "y">>>>,
       <<<<"F", "r", "i", "d", "a", "y">>, <<"F", "r", "i", "d", "a", "y">>>>,
       <<<<"S", "a", "t", "u", "r", "d", "a", "y">>, <<"S", "a", "t", "u", "r", "d", "a", "y">>>>,
       <<<<"S", "u", "n", "d", "a", "y">>, <<"S", "u", "n", "d", "a", "y">>>>,
       <<<<"M", "o", "n">>, <<"M", "o", "n", "d", "a", "y">>>>,
       <<<<"T", "u", "e">>, <<"T", "u", "e", "s", "d", "a", "y">>>>,
       <<<<"W", "e", "d">>, <<"W", "e", "d", "n", "e", "s", "d", "a", "y">>>>,
       <<<<"T", "h", "u">>, <<"T", "h", "u", "r", "s", "d", "a", "y">>>>,
       <<<<"F", "r", "i">>, <<"F", "r", "i", "d", "a", "y">>>>,
       <<<<"S", "a", "t">>, <<"S", "a", "t", "u", "r", "d", "a", "y">>>>,
       <<<<"S", "u", "n">>, <<"S", "u", "n", "d", "a", "y">>>> >>

\* the alternative k matches at the start of the text, whatever the case,
\* and a word boundary follows it
DayTokenMatches(text, k) ==
    /\ Len(DAY_TOKENS[k][1]) <= Len(text)
    /\ Lower(SubSeq(text, 1, Len(DAY_TOKENS[k][1]))) = Lower(DAY_TOKENS[k][1])
    /\ \/ Len(text) = Len(DAY_TOKENS[k][1])
       \/ ~IsWordChar(text[Len(DAY_TOKENS[k][1]) + 1])

extract_day_label(text) ==
    IF clean_text(text) = << >> THEN << >>
    ELSE IF \A k \in 1..Len(DAY_TOKENS) : ~DayTokenMatches(clean_text(text), k)
    THEN << >>
    ELSE DAY_TOKENS[CHOOSE k \in 1..Len(DAY_TOKENS) :
                        /\ DayTokenMatches(clean_text(text), k)
                        /\ \A j \in 1..(k - 1) : ~DayTokenMatches(clean_text(text), j)][2]

S_Hash == <<"#">>

S_Name == <<"N", "a", "m", "e">>

CollapsedHeader ==
    <<S_Hash, S_Name, <<"S", "t", "u", "d", "i", "o", " ", "I", "c", "o", "n">>, <<"D", "i", "v", "i", "s", "i", "o", "n">>, <<"S", "t", "y", "l", "e">>,
      <<"G", "r", "o", "u", "p", " ", "S", "i", "z", "e">>, <<"S", "t", "u", "d", "i", "o">>, <<"T", "i", "m", "e">>>>

\* normalize_header_row of a row of texts
normalize_header_row(row) ==
    IF /\ Len(row) = 1
       /\ StartsWith(clean_text(row[1]), S_Hash)
       /\ Contains(clean_text(row[1]), S_Name)
       /\ Contains(clean_text(row[1]), <<"D", "i", "v", "i", "s", "i", "o", "n">>)
       /\ Contains(clean_text(row[1]), <<"S", "t", "y", "l", "e">>)
       /\ Contains(clean_text(row[1]), <<"T", "i", "m", "e">>)
    THEN CollapsedHeader
    ELSE [i \in 1..Len(row) |-> clean_text(row[i])]

is_matching_header(normalized_header) ==
    /\ Len(normalized_header) >= 2
    /\ normalized_header[1] = S_Hash
    /\ Contains(normalized_header[2], S_Name)

\* a dict is the sequence of its <<key, value>> pairs in insertion order
DictHas(d, key) == \E i \in 1..Len(d) : d[i][1] = key

DictGet(d, key) == d[CHOOSE i \in 1..Len(d) : d[i][1] = key][2]

DictSet(d, key, val) ==
    IF DictHas(d, key)
    THEN [i \in 1..Len(d) |-> IF d[i][1] = key THEN <<key, val>> ELSE d[i]]
    ELSE Append(d, <<key, val>>)

K_day == <<"d", "a", "y">>

K_entry_num == <<"e", "n", "t", "r", "y", "_", "n", "u", "m">>

\* the length of the run of digits the line starts with
RECURSIVE LeadingDigits(_)
LeadingDigits(line) ==
    IF line # << >> /\ IsDigit(line[1]) THEN 1 + LeadingDigits(Tail(line)) ELSE 0

\* parse_single_cell_entry_line: None unless the cleaned line is a number,
\* a blank and a rest.  Of the fields cut from the rest of the line
\* (dance_name, division, style, group_size, studio, time) none is kept here.
parse_single_cell_entry_line(line_text) ==
    IF clean_text(line_text) = << >> THEN None
    ELSE IF LeadingDigits(clean_text(line_text)) = 0 THEN None
    ELSE IF LeadingDigits(clean_text(line_text)) >= Len(clean_text(line_text)) THEN None
    ELSE IF clean_text(line_text)[LeadingDigits(clean_text(line_text)) + 1] # " " THEN None
    ELSE Some(<< <<K_entry_num,
                   SubSeq(clean_text(line_text), 1, LeadingDigits(clean_text(line_text)))>> >>)

\* record = {active_header[i]: normalized_row[i] for i in range(length)}
RECURSIVE ZipRecord(_, _, _)
ZipRecord(header, row, length) ==
    IF length = 0 THEN << >>
    ELSE DictSet(ZipRecord(header, row, length - 1), header[length], row[length])

MinOf(a, b) == IF a <= b THEN a ELSE b

\* the record of a row of several cells: the day is set when there is a
\* current day and the record has no "day" of its own
multi_column_record(header, row, day) ==
    IF day # << >> /\ ~DictHas(ZipRecord(header, row, MinOf(Len(header), Len(row))), K_day)
    THEN DictSet(ZipRecord(header, row, MinOf(Len(header), Len(row))), K_day, day)
    ELSE ZipRecord(header, row, MinOf(Len(header), Len(row)))

\* the rows added to all_rows by one row of a table
RowRecords(normalized_row, header, day) ==
    IF Len(normalized_row) = 1
    THEN IF parse_single_cell_entry_line(normalized_row[1]) = None THEN << >>
         ELSE << DictSet(parse_single_cell_entry_line(normalized_row[1])[1], K_day, day) >>
    ELSE << multi_column_record(header, normalized_row, day) >>

---------------------------------------------------------------------------
(* The documents of tables                                                 *)

CompRows ==
    << <<Some(<<"#">>), Some(<<"N", "a", "m", "e">>), Some(<<"D", "i", "v", "i", "s", "i", "o", "n">>), Some(<<"T", "i", "m", "e">>)>>,
       <<Some(<<"#", " ", "N", "a", "m", "e", " ", "S", "t", "u", "d", "i", "o", " ", "I", "c", "o", "n", " ", "D", "i", "v", "i", "s", "i", "o", "n", " ", "S", "t", "y", "l", "e", "\n", "G", "r", "o", "u", "p", " ", "S", "i", "z", "e", " ", "S", "t", "u", "d", "i", "o", " ", "T", "i", "m", "e">>)>>,
       <<Some(<<"#">>), Some(<<"N", "a", "m", "e">>), Some(<<"d", "a", "y">>)>>,
       <<Some(<<"S", "a", "t", "u", "r", "d", "a", "y", ",", " ", "M", "a", "r", "c", "h", " ", "4">>)>>,
       <<None, Some(<<"s", "u", "n">>)>>,
       <<Some(<<"1", "2", " ", "F", "r", "i", "d", "a", "y", " ", "F", "e", "e", "l", "i", "n", "g", " ", "M", "i", "n", "i", " ", "J", "a", "z", "z", " ", "S", "o", "l", "o", " ", "9", ":", "0", "5">>)>>,
       <<Some(<<"C", "O", "M", "P", "E", "T", "I", "T", "I", "O", "N", " ", "B", "R", "E", "A", "K">>)>>,
       <<Some(<<"1", "3">>), Some(<<"T", "a", "n", "g", "o">>), Some(<<"T", "e", "e", "n">>), Some(<<"9", ":", "1", "0">>)>>,
       <<None, Some(<<" ", " ">>)>>,
       <<>>,
       <<Some(<<"S", "u", "n", "n", "y">>), Some(<<"S", "i", "d", "e">>)>> >>

\* an item of a document: a row, the start of another table or of another page
NewTable == Len(CompRows) + 1

NewPage == Len(CompRows) + 2

MaxCompItems == 4

CompStreams == UNION {[1..n -> 1..NewPage] : n \in 0..MaxCompItems}

\* the items cut at every mark: the pieces between the marks
RECURSIVE CutAt(_, _, _, _)
CutAt(items, mark, i, cur) ==
    IF i > Len(items) THEN <<cur>>
    ELSE IF items[i] = mark THEN <<cur>> \o CutAt(items, mark, i + 1, << >>)
    ELSE CutAt(items, mark, i + 1, Append(cur, items[i]))

\* page.extract_tables(): no table for a page without items
TablesOf(items) ==
    IF items = << >> THEN << >>
    ELSE [t \in 1..Len(CutAt(items, NewTable, 1, << >>)) |->
             [r \in 1..Len(CutAt(items, NewTable, 1, << >>)[t]) |->
                 CompRows[CutAt(items, NewTable, 1, << >>)[t][r]]]]

PagesOf(stream) ==
    [p \in 1..Len(CutAt(stream, NewPage, 1, << >>)) |->
        TablesOf(CutAt(stream, NewPage, 1, << >>)[p])]

---------------------------------------------------------------------------
(* SpecComp: the loops of parse_wcde_comp over the pages of an opened      *)
(* document, a step for every page, table and row, and the checks after    *)
(* the loops                                                               *)

InitComp ==
    /\ \E stream \in CompStreams : comp_pages = PagesOf(stream)
    /\ at = <<0, 0, 0>>
    /\ all_rows = << >>
    /\ active_header = None
    /\ current_day = << >>
    /\ found_tables = FALSE
    /\ found_matching_header = FALSE
    /\ comp_outcome = None
    /\ pc = "page"
    /\ TimeIdle
    /\ PageIdle
    /\ DedupeIdle
    /\ DocIdle
    /\ VibeIdle

CompStep ==
    /\ UNCHANGED comp_pages
    /\ UNCHANGED timeVars
    /\ UNCHANGED pageVars
    /\ UNCHANGED dedupeVars
    /\ UNCHANGED docVars
    /\ UNCHANGED vibeVars

\* for page in pdf.pages: the next page, skipped if it has no tables
CompNextPage ==
    /\ pc = "page"
    /\ at[1] < Len(comp_pages)
    /\ at' = <<at[1] + 1, 0, 0>>
    /\ IF comp_pages[at[1] + 1] = << >>
       THEN pc' = "page" /\ found_tables' = found_tables
       ELSE pc' = "table" /\ found_tables' = TRUE
    /\ CompStep
    /\ UNCHANGED <<all_rows, active_header, current_day, found_matching_header,
                   comp_outcome>>

\* for table in tables: the next table, skipped if it is empty; after the
\* last table the next page
CompNextTable ==
    /\ pc = "table"
    /\ IF at[2] = Len(comp_pages[at[1]])
       THEN pc' = "page" /\ at' = at
       ELSE /\ at' = <<at[1], at[2] + 1, 0>>
            /\ pc' = IF comp_pages[at[1]][at[2] + 1] = << >> THEN "table" ELSE "row"
    /\ CompStep
    /\ UNCHANGED <<all_rows, active_header, current_day, found_tables,
                   found_matching_header, comp_outcome>>

CompTable == comp_pages[at[1]][at[2]]

\* [clean_cell(v) for v in row]
NormalizedCompRow(row) == [i \in 1..Len(row) |-> clean_cell(row[i])]

\* for row in table: the end of the table
CompEndOfTable ==
    /\ pc = "row"
    /\ at[3] = Len(CompTable)
    /\ pc' = "table"
    /\ CompStep
    /\ UNCHANGED <<at, all_rows, active_header, current_day, found_tables,
                   found_matching_header, comp_outcome>>

\* for row in table: the body of the loop for the next row
CompRow ==
    /\ pc = "row"
    /\ at[3] < Len(CompTable)
    /\ at' = <<at[1], at[2], at[3] + 1>>
    /\ pc' = "row"
    /\ \E normalized_row \in {NormalizedCompRow(CompTable[at[3] + 1])} :
          IF normalized_row = << >> \/ \A i \in 1..Len(normalized_row) : normalized_row[i] = << >>
          THEN \* an empty row or a row of empty cells
               UNCHANGED <<all_rows, active_header, current_day, found_matching_header>>
          ELSE IF is_matching_header(normalize_header_row(normalized_row))
          THEN /\ active_header' = Some(normalize_header_row(normalized_row))
               /\ found_matching_header' = TRUE
               /\ UNCHANGED <<all_rows, current_day>>
          ELSE IF extract_day_label(Join(normalized_row, <<" ">>)) # << >>
          THEN /\ current_day' = extract_day_label(Join(normalized_row, <<" ">>))
               /\ UNCHANGED <<all_rows, active_header, found_matching_header>>
          ELSE IF active_header = None
          THEN UNCHANGED <<all_rows, active_header, current_day, found_matching_header>>
          ELSE /\ all_rows' = all_rows \o RowRecords(normalized_row, active_header[1],
                                                      current_day)
               /\ UNCHANGED <<active_header, current_day, found_matching_header>>
    /\ CompStep
    /\ UNCHANGED <<found_tables, comp_outcome>>

\* after the loops: the three errors, or the table is built
CompCheck ==
    /\ pc = "page"
    /\ at[1] = Len(comp_pages)
    /\ comp_outcome' =
           IF ~found_tables THEN Some("ValueError: no tables")
           ELSE IF ~found_matching_header THEN Some("ValueError: no matching header")
           ELSE IF all_rows = << >> THEN Some("ValueError: no data rows")
           ELSE Some("table")
    /\ pc' = "done"
    /\ CompStep
    /\ UNCHANGED <<at, all_rows, active_header, current_day, found_tables,
                   found_matching_header>>

NextComp ==
    \/ CompNextPage
    \/ CompNextTable
    \/ CompEndOfTable
    \/ CompRow
    \/ CompCheck

SpecComp == InitComp /\ [][NextComp]_vars

---------------------------------------------------------------------------
(* The page loop of parse_hollywood_vibe_comp                              *)
(* (src/parse_hollywood_vibe_comp.py)                                      *)

ROUTINE_HEADER_1 == <<"R", "o", "u", "t", "i", "n", "e", " ", "N", "a", "m", "e", " ", "C", "a", "t", "e", "g", "o", "r", "y", " ", "#", " ", "D", "a", "n", "c", "e", "r", "s">>

ROUTINE_HEADER_2 == <<"D", "a", "n", "c", "e", "r", "s">>

S_HollywoodVibe == <<"H", "o", "l", "l", "y", "w", "o", "o", "d", " ", "V", "i", "b", "e">>

S_SpaceStageSpace == <<" ", "S", "t", "a", "g", "e", " ">>

S_stage == <<"s", "t", "a", "g", "e">>

DIVISION_PATTERN == <<<<"M", "i", "n", "i">>, <<"P", "r", "e", "-", "T", "e", "e", "n">>, <<"J", "u", "n", "i", "o", "r">>, <<"T", "e", "e", "n">>, <<"S", "e", "n", "i", "o", "r">>>>

GROUP_PATTERN ==
    <<<<"S", "o", "l", "o">>, <<"D", "u", "o", "/", "T", "r", "i", "o">>, <<"S", "m", "a", "l", "l", " ", "G", "r", "o", "u", "p">>, <<"L", "a", "r", "g", "e", " ", "G", "r", "o", "u", "p">>, <<"L", "i", "n", "e">>, <<"P", "r", "o", "d", "u", "c", "t", "i", "o", "n">>>>

\* clean_line has the text of clean_text
clean_line(text) == clean_text(text)

\* [clean_line(line) for line in raw_lines if clean_line(line)]
RECURSIVE CleanLines(_)
CleanLines(raw_lines) ==
    IF raw_lines = << >> THEN << >>
    ELSE IF clean_line(Head(raw_lines)) = << >> THEN CleanLines(Tail(raw_lines))
    ELSE <<clean_line(Head(raw_lines))>> \o CleanLines(Tail(raw_lines))

\* the position after one or two digits at position i and the character
\* sep after them, 0 if the text does not go on so
AfterDayOrMonth(text, i, sep) ==
    IF LeadingDigits(SubSeq(text, i, Len(text))) \in {1, 2}
       /\ i + LeadingDigits(SubSeq(text, i, Len(text))) <= Len(text)
       /\ text[i + LeadingDigits(SubSeq(text, i, Len(text)))] = sep
    THEN i + LeadingDigits(SubSeq(text, i, Len(text))) + 1
    ELSE 0

\* re.match(r"^\d{1,2}/\d{1,2}/\d{4} Stage ", line)
IsSegmentHeader(line) ==
    /\ AfterDayOrMonth(line, 1, "/") # 0
    /\ AfterDayOrMonth(line, AfterDayOrMonth(line, 1, "/"), "/") # 0
    /\ \E y \in {AfterDayOrMonth(line, AfterDayOrMonth(line, 1, "/"), "/")} :
          /\ y + 3 + Len(S_SpaceStageSpace) <= Len(line)
          /\ \A k \in 0..3 : IsDigit(line[y + k])
          /\ SubSeq(line, y + 4, y + 3 + Len(S_SpaceStageSpace)) = S_SpaceStageSpace

\* parse_segment_header: (date, stage, line)
parse_segment_header(line) ==
    IF Split(line) = << >> THEN << << >>, << >>, line >>
    ELSE << Split(line)[1],
            IF Len(Split(line)) >= 3 /\ Lower(Split(line)[2]) = S_stage
            THEN Strip(Split(line)[3]) ELSE << >>,
            line >>

\* what ROUTINE_LINE_RE wants after the name, on a line of clean_line, where
\* every run of blanks is one blank: the division, the group and a blank
AfterName(d, g) ==
    <<" ">> \o DIVISION_PATTERN[d] \o <<" ">> \o GROUP_PATTERN[g] \o <<" ">>

\* ROUTINE_LINE_RE matches with a name of n characters, division d and
\* group g, and a style of one character at least
RoutineMatch(line, n, d, g) ==
    /\ Len(line) > n + Len(AfterName(d, g))
    /\ SubSeq(line, n + 1, n + Len(AfterName(d, g))) = AfterName(d, g)

\* the lengths a name may have: a blank follows it
NameEnds(line) == {n \in 1..(Len(line) - 1) : line[n + 1] = " "}

RoutineMatches(line) ==
    {m \in NameEnds(line) \X (1..Len(DIVISION_PATTERN)) \X (1..Len(GROUP_PATTERN)) :
        RoutineMatch(line, m[1], m[2], m[3])}

\* the match of the lazy name: the shortest name
FirstRoutineMatch(matches) ==
    CHOOSE m \in matches : \A o \in matches : m[1] <= o[1]

\* the groups of a match, stripped
RoutineGroups(line, m) ==
    << Strip(SubSeq(line, 1, m[1])),
       DIVISION_PATTERN[m[2]],
       GROUP_PATTERN[m[3]],
       Strip(SubSeq(line, m[1] + Len(AfterName(m[2], m[3])) + 1, Len(line))) >>

RoutineFields(line, matches) ==
    IF matches = {} THEN <<line, << >>, << >>, << >> >>
    ELSE RoutineGroups(line, FirstRoutineMatch(matches))

\* parse_routine_line: (name, division, group_size, style)
parse_routine_line(line) == RoutineFields(line, RoutineMatches(line))

\* the text without its sign, if it has one
Unsigned(text) ==
    IF text # << >> /\ text[1] \in {"+", "-"} THEN Tail(text) ELSE text

\* the text is one int() reads: a sign or none, then digits, with single
\* underscores between digits
IsIntText(text) ==
    /\ Unsigned(text) # << >>
    /\ \A i \in 1..Len(Unsigned(text)) :
          IsDigit(Unsigned(text)[i]) \/ Unsigned(text)[i] = "_"
    /\ IsDigit(Unsigned(text)[1])
    /\ IsDigit(Unsigned(text)[Len(Unsigned(text))])
    /\ \A i \in 1..(Len(Unsigned(text)) - 1) :
          ~(Unsigned(text)[i] = "_" /\ Unsigned(text)[i + 1] = "_")

\* int(num_dancers_line), None on ValueError
num_dancers_of(text) ==
    IF ~IsIntText(text) THEN None
    ELSE IF text[1] = "-" THEN Some(0 - IntOf(SelectSeq(text, IsDigit)))
    ELSE Some(IntOf(SelectSeq(text, IsDigit)))

\* a routine block is at position idx of the lines, the first line being
\* 1: the two header lines, three lines before them and nine after the first
IsBlockAt(lines, idx) ==
    /\ lines[idx] = ROUTINE_HEADER_1
    /\ idx + 1 <= Len(lines)
    /\ lines[idx + 1] = ROUTINE_HEADER_2
    /\ ~(idx - 3 < 1 \/ idx + 9 > Len(lines))

\* the record of the block at idx, routine being the fields of its first line
BlockRecord(lines, idx, index, studio, segment, routine) ==
    [page |-> index,
     segment_date |-> segment[1],
     segment_stage |-> segment[2],
     segment_header |-> segment[3],
     studio |-> studio,
     entry_num |-> lines[idx + 2],
     routine_name |-> routine[1],
     dance_name |-> routine[1],
     division |-> routine[2],
     group_size |-> routine[3],
     style |-> routine[4],
     num_dancers |-> num_dancers_of(lines[idx - 2]),
     dancers |-> lines[idx - 1],
     perf_datetime |-> lines[idx + 7],
     time |-> lines[idx + 7],
     choreographer |-> lines[idx + 9]]

\* the records of the blocks of a page from position idx on, in order
RECURSIVE BlockRecords(_, _, _, _, _)
BlockRecords(lines, idx, index, studio, segment) ==
    IF idx > Len(lines) THEN << >>
    ELSE IF IsBlockAt(lines, idx)
    THEN <<BlockRecord(lines, idx, index, studio, segment,
                       parse_routine_line(lines[idx - 3]))>>
             \o BlockRecords(lines, idx + 1, index, studio, segment)
    ELSE BlockRecords(lines, idx + 1, index, studio, segment)

\* the "Hollywood Vibe" lines that have a line under them
StudioLines(lines) ==
    {i \in 1..Len(lines) : lines[i] = S_HollywoodVibe /\ i + 1 <= Len(lines)}

\* the studio name after the page: on the first page, the line under the
\* first "Hollywood Vibe" line that has a line under it
StudioAfter(lines, index, studio) ==
    IF index = 1 /\ StudioLines(lines) # {}
    THEN lines[(CHOOSE i \in StudioLines(lines) : \A j \in StudioLines(lines) : i <= j) + 1]
    ELSE studio

\* the segment after the loop over the lines of a page: that of the last
\* line that is a segment header, the one before the page if there is none
RECURSIVE SegmentAfter(_, _)
SegmentAfter(lines, segment) ==
    IF lines = << >> THEN segment
    ELSE IF IsSegmentHeader(Head(lines))
    THEN SegmentAfter(Tail(lines), parse_segment_header(Head(lines)))
    ELSE SegmentAfter(Tail(lines), segment)

---------------------------------------------------------------------------
(* The documents of lines                                                  *)

\* an item of a document: some lines of a page, or the start of another page
VibeItems ==
    << <<<<"3", "/", "7", "/", "2", "0", "2", "5", " ", "S", "t", "a", "g", "e", " ", "1", " ", "-", " ", "S", "O", "L", "O", "S", " ", "F", "r", "i", " ", "7", ":", "0", "0", " ", "A", "M">>>>,
       <<<<" ", " ", "1", "2", "/", "1", "4", "/", "2", "0", "2", "5", " ", "S", "t", "a", "g", "e", " ", " ", "B", "2", " ", "-", " ", "G", "R", "O", "U", "P", "S">>>>,
       <<<<"N", "o", " ", "E", "x", "c", "u", "s", "e", "s", " ", "J", "u", "n", "i", "o", "r", " ", "S", "o", "l", "o", " ", "J", "a", "z", "z">>, <<"1">>, <<"A", "n", "n", " ", "L", "e", "e">>, <<"R", "o", "u", "t", "i", "n", "e", " ", "N", "a", "m", "e", " ", "C", "a", "t", "e", "g", "o", "r", "y", " ", "#", " ", "D", "a", "n", "c", "e", "r", "s">>, <<"D", "a", "n", "c", "e", "r", "s">>, <<"1", "0", "1">>, <<"S", "t", "u", "d", "i", "o">>, <<"S", "t", "a", "r", " ", " ", "S", "t", "u", "d", "i", "o">>, <<"P", "e", "r", "f", "o", "r", "m", "a", "n", "c", "e">>, <<"T", "i", "m", "e">>, <<"3", "/", "7", "/", "2", "0", "2", "5", " ", "7", ":", "0", "5", " ", "A", "M">>, <<"C", "h", "o", "r", "e", "o", "g", "r", "a", "p", "h", "e", "r">>, <<"K", "i", "m">>>>,
       <<<<"T", "w", "i", "s", "t">>, <<"1", "_", "0">>, <<"T", "h", "e", " ", "C", "o", "m", "p", "a", "n", "y">>, <<"R", "o", "u", "t", "i", "n", "e", " ", "N", "a", "m", "e", " ", "C", "a", "t", "e", "g", "o", "r", "y", " ", "#", " ", "D", "a", "n", "c", "e", "r", "s">>, <<"D", "a", "n", "c", "e", "r", "s">>, <<"+", "7">>, <<"S", "t", "u", "d", "i", "o">>, <<"S", "t", "a", "r", " ", " ", "S", "t", "u", "d", "i", "o">>, <<"P", "e", "r", "f", "o", "r", "m", "a", "n", "c", "e">>, <<"T", "i", "m", "e">>, <<"1", "2", "/", "1", "4", "/", "2", "0", "2", "5", " ", "9", ":", "0", "0", " ", "A", "M">>, <<"C", "h", "o", "r", "e", "o", "g", "r", "a", "p", "h", "e", "r">>, <<"L", "o", "u", " ", " ", "R", "o", "e">>>>,
       <<<<"H", "o", "l", "l", "y", "w", "o", "o", "d", " ", "V", "i", "b", "e">>, <<"S", "t", "a", "r", " ", "S", "t", "u", "d", "i", "o">>>>,
       <<<<"T", "e", "e", "n", " ", "L", "i", "n", "e", " ", "T", "e", "e", "n", " ", "L", "i", "n", "e", " ", "T", "a", "p">>, <<"x">>, <<"B", "o">>, <<"R", "o", "u", "t", "i", "n", "e", " ", "N", "a", "m", "e", " ", "C", "a", "t", "e", "g", "o", "r", "y", " ", "#", " ", "D", "a", "n", "c", "e", "r", "s">>, <<"D", "a", "n", "c", "e", "r", "s">>, <<"5", "5">>>>,
       <<<<" ", " ", " ">>>>,
       <<<<"3", "/", "9", "/", "2", "0", "2", "5", " ", "S", "t", "a", "g", "e", "c", "o", "a", "c", "h", " ", "1">>>> >>

VibeNewPage == Len(VibeItems) + 1

MaxVibeItems == 4

VibeStreams == UNION {[1..n -> 1..VibeNewPage] : n \in 0..MaxVibeItems}

\* text.splitlines() of a page
RawLinesOf(items) == Flatten([i \in 1..Len(items) |-> VibeItems[items[i]]])

VibePagesOf(stream) ==
    [p \in 1..Len(CutAt(stream, VibeNewPage, 1, << >>)) |->
        RawLinesOf(CutAt(stream, VibeNewPage, 1, << >>)[p])]

---------------------------------------------------------------------------
(* SpecVibe: parse_hollywood_vibe_comp over the pages of an opened         *)
(* document, a step for every page, and the check after the pages          *)

InitVibe ==
    /\ \E stream \in VibeStreams : vibe_pages = VibePagesOf(stream)
    /\ vibe_page_index = 0
    /\ vibe_records = << >>
    /\ studio_name = << >>
    /\ current_segment_date = << >>
    /\ current_stage = << >>
    /\ current_segment_line = << >>
    /\ vibe_outcome = None
    /\ pc = "pages"
    /\ TimeIdle
    /\ PageIdle
    /\ DedupeIdle
    /\ DocIdle
    /\ CompIdle

VibeStep ==
    /\ UNCHANGED vibe_pages
    /\ UNCHANGED timeVars
    /\ UNCHANGED pageVars
    /\ UNCHANGED dedupeVars
    /\ UNCHANGED docVars
    /\ UNCHANGED compVars

\* the body of the page loop for the next page: the studio name, then the
\* loop over the lines for the segment headers, then the loop over the
\* lines for the routine blocks
VibePage ==
    /\ pc = "pages"
    /\ vibe_page_index < Len(vibe_pages)
    /\ vibe_page_index' = vibe_page_index + 1
    /\ \E lines \in {CleanLines(vibe_pages[vibe_page_index + 1])} :
          /\ studio_name' = StudioAfter(lines, vibe_page_index + 1, studio_name)
          /\ \E segment \in {SegmentAfter(lines, <<current_segment_date, current_stage,
                                                   current_segment_line>>)} :
                /\ current_segment_date' = segment[1]
                /\ current_stage' = segment[2]
                /\ current_segment_line' = segment[3]
          /\ vibe_records' = vibe_records \o
                 BlockRecords(lines, 1, vibe_page_index + 1, studio_name',
                              <<current_segment_date', current_stage',
                                current_segment_line'>>)
    /\ pc' = "pages"
    /\ VibeStep
    /\ UNCHANGED vibe_outcome

\* after the pages: ValueError without a record, else the table is built
VibeCheck ==
    /\ pc = "pages"
    /\ vibe_page_index = Len(vibe_pages)
    /\ vibe_outcome' = IF vibe_records = << >> THEN Some("ValueError") ELSE Some("table")
    /\ pc' = "done"
    /\ VibeStep
    /\ UNCHANGED <<vibe_page_index, vibe_records, studio_name, current_segment_date,
                   current_stage, current_segment_line>>

NextVibe ==
    \/ VibePage
    \/ VibeCheck

SpecVibe == InitVibe /\ [][NextVibe]_vars

---------------------------------------------------------------------------
(* Claims about the row loop of parse_wcde_comp                            *)

\* the rows of the document in document order, over all tables and pages
DocumentRows == Flatten(Flatten(comp_pages))

RowText(row) == Join(NormalizedCompRow(row), <<" ">>)

IsBlankRow(row) == \A i \in 1..Len(row) : clean_cell(row[i]) = << >>

IsHeaderRow(row) ==
    ~IsBlankRow(row) /\ is_matching_header(normalize_header_row(NormalizedCompRow(row)))

IsDayHeadingRow(row) ==
    ~IsBlankRow(row) /\ ~IsHeaderRow(row) /\ extract_day_label(RowText(row)) # << >>

\* a row that is neither blank, nor a header, nor a day heading, nor a line
\* of one cell that does not start with an entry number
IsDataRow(row) ==
    /\ ~IsBlankRow(row)
    /\ ~IsHeaderRow(row)
    /\ ~IsDayHeadingRow(row)
    /\ Len(row) = 1 => parse_single_cell_entry_line(clean_cell(row[1])) # None

\* for every data row after the first header row, in document order, the
\* label of the most recent day heading before it, empty if there is none
RECURSIVE DaysInForce(_, _, _, _)
DaysInForce(doc_rows, i, day, header_seen) ==
    IF i > Len(doc_rows) THEN << >>
    ELSE IF IsHeaderRow(doc_rows[i]) THEN DaysInForce(doc_rows, i + 1, day, TRUE)
    ELSE IF IsDayHeadingRow(doc_rows[i])
    THEN DaysInForce(doc_rows, i + 1, extract_day_label(RowText(doc_rows[i])), header_seen)
    ELSE IF header_seen /\ IsDataRow(doc_rows[i])
    THEN <<day>> \o DaysInForce(doc_rows, i + 1, day, header_seen)
    ELSE DaysInForce(doc_rows, i + 1, day, header_seen)

LoopsDone == pc = "done" /\ comp_outcome # None

---------------------------------------------------------------------------
(* Claims about the page loop of parse_hollywood_vibe_comp                 *)

\* the last segment header line among the lines, before if there is none
RECURSIVE LastHeader(_, _)
LastHeader(lines, before) ==
    IF lines = << >> THEN before
    ELSE IF IsSegmentHeader(lines[Len(lines)]) THEN Some(lines[Len(lines)])
    ELSE LastHeader(SubSeq(lines, 1, Len(lines) - 1), before)

\* for the routine blocks of a page from position idx on, in order, the last
\* segment header line before the first line of the block
RECURSIVE HeadersInForce(_, _, _)
HeadersInForce(lines, idx, before) ==
    IF idx > Len(lines) THEN << >>
    ELSE IF IsBlockAt(lines, idx)
    THEN <<LastHeader(SubSeq(lines, 1, idx - 4), before)>>
             \o HeadersInForce(lines, idx + 1, before)
    ELSE HeadersInForce(lines, idx + 1, before)

\* the same for the blocks of the pages from page p on, in document order
RECURSIVE HeadersInForceFrom(_, _)
HeadersInForceFrom(p, before) ==
    IF p > Len(vibe_pages) THEN << >>
    ELSE HeadersInForce(CleanLines(vibe_pages[p]), 1, before)
             \o HeadersInForceFrom(p + 1, LastHeader(CleanLines(vibe_pages[p]), before))

\* the tag a segment header line gives: its date, its stage and the line
TagOf(header) ==
    IF header = None THEN << << >>, << >>, << >> >> ELSE parse_segment_header(header[1])

TagOfRecord(record) ==
    <<record.segment_date, record.segment_stage, record.segment_header>>

PagesDone == pc = "done" /\ vibe_outcome # None

===========================================================================
